---- MODULE Spec2Model ----
(***************************************************************************)
(* RateLimitedHTTPClient (src/fbref_scraper/http.py): the retrying get     *)
(* call, its rate limiter, the error-page classifier and the escalation    *)
(* from the requests session to the Selenium driver.                       *)
(*                                                                         *)
(* Time is counted in ticks of half a second, so that the jitter factors   *)
(* 0.5, 1.0 and 1.5 of random.uniform(0.5, 1.5) give whole numbers of      *)
(* ticks; Ticks(s) converts seconds to ticks.  The program reads the clock *)
(* only to compare it with last_request_time + adjusted_delay, which is at *)
(* most last_request_time + Horizon, and to store it in last_request_time: *)
(* readings beyond that horizon are all alike to it, so the clock of the   *)
(* model stops there (Later).                                              *)
(*                                                                         *)
(* Spec and LiveSpec follow one client through its get calls.  ClassifySpec *)
(* applies _is_error_page to a text on its own.  ScraperSpec follows one   *)
(* run of the command line program (src/fbref_scraper/cli.py) through      *)
(* FBrefScraper (src/fbref_scraper/scraper.py): there a get call is taken  *)
(* by what its caller sees of it, a response or an exception, and by the   *)
(* driver it may leave behind.  MockSpec calls get_mock_team                *)
(* (src/fbref_scraper/mock_data.py) again and again, and ParserSpec hands  *)
(* one document to parse_match_logs or to parse_team_search_results        *)
(* (src/fbref_scraper/parser.py).                                          *)
(***************************************************************************)
EXTENDS Integers, Sequences, FiniteSets, TLC

\* ---------------------------------------------------------------- bounds
\* largest max_retries a client is constructed with (the default is 3)
MaxRetriesCfg == 3
\* number of get calls made, one after the other, on the client
MaxCalls == 2
\* longest pause of the caller between two get calls, in units of half the
\* rate limit delay
MaxGap == 3

\* the clock reading, in ticks, up to which two threads sharing a client
\* are followed
MaxClock == 24

\* ------------------------------------------------------ program constants
\* default of the constructor's rate_limit_delay, in seconds
rate_limit_delay == 5

VARIABLES
    max_retries,        \* self.max_retries
    last_request_time,  \* self.last_request_time (0: no response delivered yet)
    driver,             \* self.driver: "None" or "live"
    now,                \* time.time()
    pc,                 \* position of the caller / of get
    retries,            \* local retries of get
    response,           \* local response of get (Unbound before its first binding)
    result,             \* what get handed to its caller
    calls,              \* number of get calls started
    attempts,           \* attempts issued by the running call
    waits,              \* _respect_rate_limit calls made by the running call
    rotations,          \* _rotate_user_agent calls made by the running call
    via,                \* transport of the latest attempt
    outcome,            \* how the latest attempt ended
    first,              \* how the attempt made with self.session ended
    jitter,             \* jitter factor (in halves) of the latest limiter call
    backoff,            \* the sleep that followed the latest failed attempt
    live_drivers        \* webdriver.Chrome instances created and not yet quit

\* a body text handed to _is_error_page on its own, and what it answered
VARIABLES
    text,               \* the html_content handed to _is_error_page
    label               \* the error_type it answered ("unclassified" before)

\* one run of the command line program with its FBrefScraper
VARIABLES
    team_identifier,    \* args.team or args.url
    is_url,             \* whether it came as --url
    num_matches,        \* args.matches
    force_mock,         \* args.force_mock
    use_mock_data,      \* scraper.use_mock_data
    at,                 \* position of the run
    team,               \* local team of fetch_team_data (NoTeam: None)
    matches,            \* local matches of fetch_team_data
    fetched,            \* what main holds as team
    requested,          \* the http_client.get calls made, with their answers
    parsed,             \* what parse_match_logs returned (<< >> before)
    mock_lookups,       \* get_mock_team calls made
    exit_code           \* what main returned (NoExit before)

\* the synthetic dataset, looked up again and again
VARIABLES
    dataset,            \* TEAM_DATA, as the module mock_data holds it
    known_teams,        \* FBrefScraper.KNOWN_TEAMS, as the class holds it
    resolutions         \* the get_mock_team calls made, with what they returned

\* a document handed to one function of the parser on its own
VARIABLES
    document,           \* the html argument
    parser,             \* the function called
    limit,              \* the num_matches argument
    records,            \* the list it returned (<< >> before)
    parser_at           \* "none", "called" or "returned"

\* two threads that call get on the same client, one call each
VARIABLES
    callers,            \* the locals of each thread's get call (<< >>: no threads)
    overlapped          \* whether a call was started while the other was running

client_vars == << max_retries, last_request_time, driver, now, pc, retries,
                  response, result, calls, attempts, waits, rotations, via,
                  outcome, first, jitter, backoff, live_drivers >>

classifier_vars == << text, label >>

scraper_vars == << team_identifier, is_url, num_matches, force_mock,
                   use_mock_data, at, team, matches, fetched, requested,
                   parsed, mock_lookups, exit_code >>

\* what one get call works on, the driver apart
call_vars == << max_retries, last_request_time, now, pc, retries, response,
               result, calls, attempts, waits, rotations, via, outcome,
               first, jitter, backoff >>

mock_vars == << dataset, known_teams, resolutions >>

parser_vars == << document, parser, limit, records, parser_at >>

caller_vars == << callers, overlapped >>

vars == << client_vars, classifier_vars, scraper_vars, mock_vars, parser_vars,
          caller_vars >>

\* ------------------------------------------------------------ data values
Ticks(seconds) == 2 * seconds

Pow2(n) == 2 ^ n

Min(a, b) == IF a <= b THEN a ELSE b

\* the largest adjusted_delay, 1.5 * rate_limit_delay, in ticks
Horizon == 3 * rate_limit_delay

\* the clock `ticks` after time t, read against the timestamp `last`
Later(t, ticks, last) == Min(t + ticks, last + Horizon)

\* random.uniform(lo, hi), by its two end points
Uniform(lo, hi) == {lo, hi}

\* jitter = random.uniform(0.5, 1.5), in halves
JitterHalves == {1, 2, 3}

Signatures == {"500 error", "403 Forbidden", "Access Denied",
               "404 Not Found", "Rate Limit Exceeded"}

\* a body is known by the signature phrases it contains; the servers of the
\* model answer with a body that holds none of them or exactly one
Bodies == {{}} \cup {{phrase} : phrase \in Signatures}

Statuses == {200, 403, 404, 429, 500}

Unbound == [bound |-> FALSE]

NoResult == [kind |-> "none"]

NoBackoff == [kind |-> "none"]

\* ----------------------------------------------------- pure parts of get
\* _is_error_page: the error type, "" when the page is no error page
is_error_page(html_content) ==
    IF "500 error" \in html_content THEN "server_error"
    ELSE IF "403 Forbidden" \in html_content \/ "Access Denied" \in html_content
         THEN "forbidden"
    ELSE IF "404 Not Found" \in html_content THEN "not_found"
    ELSE IF "Rate Limit Exceeded" \in html_content THEN "rate_limit"
    ELSE ""

\* the loop with its condition off by one: one attempt too many
LoopCondition_Extra(r, m) == r <= m + 1

\* while retries <= self.max_retries
LoopCondition(r, m) == r <= m

\* the session used for the first two attempts
UseRequests_OffByOne(r) == r <= 1

\* the session used for the second attempt instead of the first
UseRequests_WrongAttempt(r) == r = 1

\* if retries == 0: the attempt goes through self.session
UseRequests(r) == r = 0

\* if response.status_code in (403, 429, 500)
EscalatingStatus(s) == s \in {403, 429, 500}

\* response.raise_for_status() raises HTTPError for 4xx and 5xx
raise_for_status(s) == s >= 400 /\ s < 600

\* if error_type == "server_error" and retries >= self.max_retries: break
SoftSuccess(error_type, r, m) == error_type = "server_error" /\ r >= m

\* except TimeoutException: if retries >= self.max_retries: raise
TimeoutFatal(r, m) == r >= m

\* the handler giving up one attempt early
ExceptFatal_Early(r, m) == r >= m

\* except (RequestException, WebDriverException): retries += 1;
\* if retries > self.max_retries: raise   (r is retries after the increment)
ExceptFatal(r, m) == r > m

\* a limiter that never sleeps
respect_rate_limit_Never(t, last, jitter_factor) == t

\* the limiter with the jitter factor left out of adjusted_delay
respect_rate_limit_NoJitter(t, last, jitter_factor) ==
    IF last > 0
    THEN LET elapsed == t - last
             adjusted_delay == rate_limit_delay * 2
         IN  IF elapsed < adjusted_delay
             THEN t + (adjusted_delay - elapsed)
             ELSE t
    ELSE t

\* _respect_rate_limit: the time at which the call returns
respect_rate_limit(t, last, jitter_factor) ==
    IF last > 0
    THEN LET elapsed == t - last
             adjusted_delay == rate_limit_delay * jitter_factor
         IN  IF elapsed < adjusted_delay
             THEN t + (adjusted_delay - elapsed)
             ELSE t
    ELSE t

\* the timestamp written after every attempt, failed ones included
LastRequestTimeAfter_Always(kind, last, t) == t

\* self.last_request_time after an attempt that ended as `kind` at time t
LastRequestTimeAfter(kind, last, t) ==
    IF kind = "delivered" THEN t ELSE last

\* wait_time = 2 ** retries + random.uniform(2, 5), after an error page
ErrorPageWait(r, u) == Pow2(r) + u

\* wait_time = 2 ** retries + random.uniform(0, 1), after a caught exception
ExceptWait(r, u) == Pow2(r) + u

\* ------------------------------------------------------------------ Init
\* RateLimitedHTTPClient(max_retries = m), before its first get call
Constructed(m) ==
    /\ max_retries = m
    /\ last_request_time = 0
    /\ driver = "None"
    /\ now = 1
    /\ pc = "idle"
    /\ retries = 0
    /\ response = Unbound
    /\ result = NoResult
    /\ calls = 0
    /\ attempts = 0
    /\ waits = 0
    /\ rotations = 0
    /\ via = "none"
    /\ outcome = "none"
    /\ first = "none"
    /\ jitter = 0
    /\ backoff = NoBackoff
    /\ live_drivers = 0

\* no body is being classified on its own
ClassifierIdle ==
    /\ text = {}
    /\ label = "unclassified"

\* no run of the command line program is under way
ScraperIdle ==
    /\ team_identifier = ""
    /\ is_url = FALSE
    /\ num_matches = 0
    /\ force_mock = FALSE
    /\ use_mock_data = FALSE
    /\ at = "none"
    /\ team = [found |-> FALSE]
    /\ matches = << >>
    /\ fetched = [found |-> FALSE]
    /\ requested = << >>
    /\ parsed = << >>
    /\ mock_lookups = 0
    /\ exit_code = -1

\* neither mock_data nor scraper has been imported
MockIdle ==
    /\ dataset = << >>
    /\ known_teams = << >>
    /\ resolutions = << >>

\* no document is being parsed on its own
ParserIdle ==
    /\ document = << >>
    /\ parser = "none"
    /\ limit = 0
    /\ records = << >>
    /\ parser_at = "none"

\* no threads share the client
CallersIdle ==
    /\ callers = << >>
    /\ overlapped = FALSE

Init ==
    /\ \E m \in 0..MaxRetriesCfg : Constructed(m)
    /\ ClassifierIdle
    /\ ScraperIdle
    /\ MockIdle
    /\ ParserIdle
    /\ CallersIdle

\* ------------------------------------------- how one attempt can end
\* `continue` after a failed attempt: retries += 1, an optional sleep of
\* `wait` seconds recorded as `bo`, and back to the top of the loop
Continue(kind, t, wait, bo) ==
    /\ retries' = retries + 1
    /\ outcome' = kind
    /\ last_request_time' = LastRequestTimeAfter(kind, last_request_time, t)
    /\ now' = Later(t, Ticks(wait), last_request_time')
    /\ backoff' = bo
    /\ pc' = "loop"
    /\ result' = result

\* the handler of except (RequestException, WebDriverException), entered
\* at time t by an attempt that ended as `kind` with exception `exc`.  Its
\* branch on e.response.status_code runs only for a truthy e.response; a
\* Response is truthy when its status is below 400, so none of the cases
\* 403, 429, 500 is ever taken and wait_time stays 2 ** retries + uniform(0, 1)
Except(kind, exc, t) ==
    LET r == retries + 1
    IN  /\ retries' = r
        /\ outcome' = kind
        /\ last_request_time' = LastRequestTimeAfter(kind, last_request_time, t)
        /\ IF ExceptFatal(r, max_retries)
           THEN /\ pc' = "raised"
                /\ result' = [kind |-> "exception", exc |-> exc]
                /\ now' = Later(t, 0, last_request_time')
                /\ backoff' = NoBackoff
           ELSE \E u \in Uniform(0, 1) :
                /\ now' = Later(t, Ticks(ExceptWait(r, u)), last_request_time')
                /\ backoff' = [kind |-> "except", seconds |-> ExceptWait(r, u),
                               rand |-> u]
                /\ pc' = "loop"
                /\ result' = result

\* an exception the handler does not name leaves get at once
Uncaught(exc, t) ==
    /\ retries' = retries
    /\ outcome' = "uncaught"
    /\ last_request_time' = LastRequestTimeAfter("uncaught", last_request_time, t)
    /\ pc' = "raised"
    /\ result' = [kind |-> "exception", exc |-> exc]
    /\ now' = Later(t, 0, last_request_time')
    /\ backoff' = NoBackoff

\* self.last_request_time = time.time(); [a sleep of `post` seconds;]
\* return response
Deliver(resp, t, post) ==
    /\ retries' = retries
    /\ outcome' = "delivered"
    /\ last_request_time' = LastRequestTimeAfter("delivered", last_request_time, t)
    /\ pc' = "returned"
    /\ result' = [kind |-> "response", response |-> resp]
    /\ now' = Later(t, Ticks(post), last_request_time')
    /\ backoff' = NoBackoff

\* break: the loop is left for the return statement that follows it
Break(t) ==
    /\ retries' = retries
    /\ outcome' = "soft_success"
    /\ last_request_time' = LastRequestTimeAfter("soft_success", last_request_time, t)
    /\ pc' = "after_loop"
    /\ result' = result
    /\ now' = Later(t, 0, last_request_time')
    /\ backoff' = NoBackoff

\* --------------------------------------------------------------- actions
\* the caller starts a get call, some time after the previous one ended
Get ==
    /\ pc \in {"idle", "returned", "raised"}
    /\ calls < MaxCalls
    /\ \E gap \in 0..MaxGap :
        now' = Later(now, gap * rate_limit_delay, last_request_time)
    /\ calls' = calls + 1
    /\ retries' = 0
    /\ response' = Unbound
    /\ result' = NoResult
    /\ attempts' = 0
    /\ waits' = 0
    /\ rotations' = 0
    /\ via' = "none"
    /\ outcome' = "none"
    /\ first' = "none"
    /\ backoff' = NoBackoff
    /\ pc' = "loop"
    /\ UNCHANGED << max_retries, last_request_time, driver, jitter >>
    /\ UNCHANGED << live_drivers, classifier_vars, scraper_vars, mock_vars,
                    parser_vars, caller_vars >>

\* a client that draws a new User-Agent before every attempt
RotateUserAgent_Always(r) == TRUE

\* if retries > 0: self._rotate_user_agent()
RotateUserAgent(r) == r > 0

\* the loop condition holds: the rate limiter runs before the attempt, and
\* before a retry the User-Agent header of the session is drawn again from
\* USER_AGENTS (which of them it is has no effect on get)
RespectRateLimit ==
    /\ pc = "loop"
    /\ LoopCondition(retries, max_retries)
    /\ \E j \in JitterHalves :
        /\ jitter' = j
        /\ now' = respect_rate_limit(now, last_request_time, j)
    /\ waits' = waits + 1
    /\ rotations' = IF RotateUserAgent(retries) THEN rotations + 1
                    ELSE rotations
    /\ backoff' = NoBackoff
    /\ pc' = "attempt"
    /\ UNCHANGED << max_retries, last_request_time, driver, retries, response,
                    result, calls, attempts, via, outcome, first >>
    /\ UNCHANGED << live_drivers, classifier_vars, scraper_vars, mock_vars,
                    parser_vars, caller_vars >>

\* the loop condition fails: control reaches the statement after the loop
ExitLoop ==
    /\ pc = "loop"
    /\ ~LoopCondition(retries, max_retries)
    /\ pc' = "after_loop"
    /\ UNCHANGED << max_retries, last_request_time, driver, now, retries,
                    response, result, calls, attempts, waits, rotations, via,
                    outcome, first, jitter, backoff >>
    /\ UNCHANGED << live_drivers, classifier_vars, scraper_vars, mock_vars,
                    parser_vars, caller_vars >>

\* the attempt made with retries == 0: self.session.get(full_url)
SessionAttempt ==
    /\ pc = "attempt"
    /\ UseRequests(retries)
    /\ attempts' = attempts + 1
    /\ via' = "requests"
    /\ \/ /\ response' = response
          /\ Except("exception", "RequestException", now)
       \/ \E s \in Statuses, b \in Bodies :
          /\ response' = [bound |-> TRUE, via |-> "requests", status |-> s,
                          body |-> b]
          /\ IF EscalatingStatus(s)
             THEN Continue("blocked_status", now, 0, NoBackoff)
             ELSE IF is_error_page(b) # ""
             THEN Continue("error_page", now, 0, NoBackoff)
             ELSE IF raise_for_status(s)
             THEN Except("exception", "HTTPError", now)
             ELSE Deliver(response', now, 0)
    /\ first' = outcome'
    /\ jitter' = 0
    /\ UNCHANGED << max_retries, driver, calls, waits, rotations >>
    /\ UNCHANGED << live_drivers, classifier_vars, scraper_vars, mock_vars,
                    parser_vars, caller_vars >>

\* return response, the statement after the loop
ReturnAfterLoop ==
    /\ pc = "after_loop"
    /\ IF response.bound
       THEN /\ pc' = "returned"
            /\ result' = [kind |-> "response", response |-> response]
       ELSE /\ pc' = "raised"
            /\ result' = [kind |-> "exception", exc |-> "UnboundLocalError"]
    /\ UNCHANGED << max_retries, last_request_time, driver, now, retries,
                    response, calls, attempts, waits, rotations, via, outcome,
                    first, jitter, backoff >>
    /\ UNCHANGED << live_drivers, classifier_vars, scraper_vars, mock_vars,
                    parser_vars, caller_vars >>

\* _get_selenium_driver when self.driver is None: webdriver.Chrome may fail
\* before self.driver is assigned, the calls made on the new driver may fail
\* after it, and ChromeDriverManager().install() may raise an exception that
\* is no WebDriverException; every one is re-raised by the function
DriverInits == {"ok", "WebDriverException before", "WebDriverException after",
                "Exception"}

\* a driver created at every call of _get_selenium_driver
DriverMissing_Always(d) == TRUE

\* if self.driver is None: the driver has to be created
DriverMissing(d) == d = "None"

\* an attempt made with retries > 0: the Selenium driver
SeleniumAttempt ==
    /\ pc = "attempt"
    /\ ~UseRequests(retries)
    /\ attempts' = attempts + 1
    /\ via' = "selenium"
    /\ \E init \in (IF DriverMissing(driver) THEN DriverInits ELSE {"ok"}) :
       /\ driver' = IF init \in {"ok", "WebDriverException after"}
                    THEN "live" ELSE driver
       /\ live_drivers' =
              IF DriverMissing(driver) /\ init \in {"ok", "WebDriverException after"}
              THEN live_drivers + 1 ELSE live_drivers
       /\ IF init = "Exception"
          THEN /\ response' = response
               /\ Uncaught("Exception", now)
          ELSE IF init # "ok"
          THEN /\ response' = response
               /\ Except("exception", "WebDriverException", now)
          ELSE \* driver.get(full_url) or driver.page_source raises
               \/ /\ response' = response
                  /\ Except("exception", "WebDriverException", now)
               \* WebDriverWait(driver, 10).until(...) times out
               \/ /\ response' = response
                  /\ IF TimeoutFatal(retries, max_retries)
                     THEN Except("wait_timeout", "TimeoutException",
                                 Later(now, Ticks(10), last_request_time))
                     ELSE Continue("wait_timeout",
                                   Later(now, Ticks(10), last_request_time),
                                   0, NoBackoff)
               \* the body is present: time.sleep(random.uniform(2, 4)), then
               \* the page source is read and classified (the second read
               \* of driver.page_source, for the response, sees the same page)
               \/ \E page \in Bodies, dyn \in Uniform(2, 4) :
                  LET t == Later(now, Ticks(dyn), last_request_time)
                      error_type == is_error_page(page)
                  IN  IF error_type # ""
                      THEN /\ response' = response
                           /\ IF SoftSuccess(error_type, retries, max_retries)
                              THEN Break(t)
                              ELSE \E u \in Uniform(2, 5) :
                                   Continue("error_page", t,
                                            ErrorPageWait(retries + 1, u),
                                            [kind |-> "error_page",
                                             seconds |-> ErrorPageWait(retries + 1, u),
                                             rand |-> u])
                      ELSE /\ response' = [bound |-> TRUE, via |-> "selenium",
                                           status |-> 200, body |-> page]
                           /\ \E post \in Uniform(1, 2) :
                              Deliver(response', t, post)
    /\ jitter' = 0
    /\ UNCHANGED << max_retries, calls, waits, rotations, first >>
    /\ UNCHANGED << classifier_vars, scraper_vars, mock_vars,
                    parser_vars, caller_vars >>

Next ==
    \/ Get
    \/ RespectRateLimit
    \/ ExitLoop
    \/ SessionAttempt
    \/ SeleniumAttempt
    \/ ReturnAfterLoop

Spec == Init /\ [][Next]_vars

\* one thread runs get, and every statement of it ends: a started call
\* keeps taking its steps
GetStep ==
    \/ RespectRateLimit
    \/ ExitLoop
    \/ SessionAttempt
    \/ SeleniumAttempt
    \/ ReturnAfterLoop

LiveSpec == Spec /\ WF_vars(GetStep)

\* ------------------------------- two threads calling get on one client
\* Each thread runs the code of get on its own locals; what the threads
\* share is the client: max_retries, last_request_time and the driver.  A
\* thread can be held up for any time between two statements, so a step is
\* taken at the clock reading `now` or later, never before the thread's
\* sleep is over.  The clock of these runs is not cut short: the times at
\* which requests are issued are compared with each other.
Callers == {1, 2}

\* the clients shared by threads are constructed with max_retries 0 or 1
SharedRetries == {0, 1}

Max(a, b) == IF a >= b THEN a ELSE b

\* the locals of a thread before its call: no timestamp read by the
\* limiter (seen), no request issued; wake is the end of its latest sleep
NotCalling ==
    [pc |-> "idle", call |-> 0, retries |-> 0, bound |-> FALSE, seen |-> -1,
     wake |-> 0, issued |-> -1, wrote |-> FALSE]

CallerDone == {"idle", "returned", "raised"}

\* the client after a first get call that session.get answered at once
\* with a good page: last_request_time holds the time of that delivery
FirstDelivered(m) ==
    /\ max_retries = m
    /\ last_request_time = 1
    /\ driver = "None"
    /\ now = 1
    /\ pc = "returned"
    /\ retries = 0
    /\ response = [bound |-> TRUE, via |-> "requests", status |-> 200,
                   body |-> {}]
    /\ result = [kind |-> "response", response |-> response]
    /\ calls = 1
    /\ attempts = 1
    /\ waits = 1
    /\ rotations = 0
    /\ via = "requests"
    /\ outcome = "delivered"
    /\ first = "delivered"
    /\ jitter = 0
    /\ backoff = NoBackoff
    /\ live_drivers = 0

SharedInit ==
    /\ \E m \in SharedRetries : Constructed(m) \/ FirstDelivered(m)
    /\ callers = [c \in Callers |-> NotCalling]
    /\ overlapped = FALSE
    /\ ClassifierIdle
    /\ ScraperIdle
    /\ MockIdle
    /\ ParserIdle

\* the time at which thread c takes its next step
At(c) == Max(now, callers[c].wake)

\* thread c ends a statement at time t with the locals `after`; `kind`
\* tells how its attempt ended, if one ended
CallerStep(c, kind, t, after) ==
    /\ t <= MaxClock
    /\ callers' = [callers EXCEPT ![c] = after]
    /\ now' = t
    /\ last_request_time' = LastRequestTimeAfter(kind, last_request_time, t)

\* `continue`: retries += 1, and a sleep of `wait` seconds when there is one
CallerContinue(c, kind, t, wait, binds) ==
    CallerStep(c, kind, t,
               [callers[c] EXCEPT !.retries = @ + 1, !.pc = "loop",
                                  !.wake = t + Ticks(wait),
                                  !.bound = @ \/ binds])

\* the handler of except (RequestException, WebDriverException)
CallerExcept(c, kind, t, binds) ==
    LET r == callers[c].retries + 1
    IN  IF ExceptFatal(r, max_retries)
        THEN CallerStep(c, kind, t,
                        [callers[c] EXCEPT !.retries = r, !.pc = "raised",
                                           !.wake = 0, !.bound = @ \/ binds])
        ELSE \E u \in Uniform(0, 1) :
             CallerStep(c, kind, t,
                        [callers[c] EXCEPT !.retries = r, !.pc = "loop",
                                           !.wake = t + Ticks(ExceptWait(r, u)),
                                           !.bound = @ \/ binds])

\* self.last_request_time = time.time(); return response (the sleep that
\* the browser path makes before it returns holds up this thread alone,
\* after its last access to the client)
CallerDeliver(c, t) ==
    CallerStep(c, "delivered", t,
               [callers[c] EXCEPT !.pc = "returned", !.bound = TRUE,
                                  !.wrote = TRUE, !.wake = 0])

\* what the steps of a thread leave alone, the client's fields apart
SharedFrame ==
    /\ UNCHANGED << max_retries, pc, retries, response, result, attempts,
                    waits, rotations, via, outcome, first, jitter, backoff >>
    /\ UNCHANGED << classifier_vars, scraper_vars, mock_vars, parser_vars >>

\* a thread calls get, some time after the previous step of any thread
CallerGet(c) ==
    /\ callers[c].pc = "idle"
    /\ \E gap \in 0..MaxGap : now' = now + gap * rate_limit_delay
    /\ now' <= MaxClock
    /\ calls' = calls + 1
    /\ callers' = [callers EXCEPT ![c] =
                       [NotCalling EXCEPT !.pc = "loop", !.call = calls + 1]]
    /\ overlapped' = (overlapped \/
                      \E d \in Callers \ {c} : callers[d].pc \notin CallerDone)
    /\ UNCHANGED << last_request_time, driver, live_drivers >>
    /\ SharedFrame

\* the top of the loop: the loop condition, then _respect_rate_limit.  The
\* limiter reads self.last_request_time twice (the test for > 0 and the
\* elapsed time); a write between the two reads gives what a limiter that
\* ran after the write gives, so the two reads are taken as one.  The sleep
\* is the thread's own: it ends at `wake`
CallerLimiter(c) ==
    /\ callers[c].pc = "loop"
    /\ IF LoopCondition(callers[c].retries, max_retries)
       THEN \E j \in JitterHalves :
            callers' = [callers EXCEPT ![c] =
                [@ EXCEPT !.pc = "attempt", !.seen = last_request_time,
                          !.wake = respect_rate_limit(At(c), last_request_time, j)]]
       ELSE callers' = [callers EXCEPT ![c] = [@ EXCEPT !.pc = "after_loop"]]
    /\ now' = At(c)
    /\ now' <= MaxClock
    /\ UNCHANGED << last_request_time, driver, live_drivers, calls, overlapped >>
    /\ SharedFrame

\* the request of an attempt is sent: self.session.get(full_url), or
\* self._get_selenium_driver() and driver.get(full_url)
CallerIssue(c) ==
    /\ callers[c].pc = "attempt"
    /\ LET t == At(c)
           sent == [callers[c] EXCEPT !.pc = "request", !.issued = t]
       IN  IF UseRequests(callers[c].retries)
           THEN /\ CallerStep(c, "issued", t, sent)
                /\ UNCHANGED << driver, live_drivers >>
           ELSE \E init \in (IF DriverMissing(driver) THEN DriverInits
                             ELSE {"ok"}) :
                /\ driver' = IF init \in {"ok", "WebDriverException after"}
                             THEN "live" ELSE driver
                /\ live_drivers' =
                       IF DriverMissing(driver)
                          /\ init \in {"ok", "WebDriverException after"}
                       THEN live_drivers + 1 ELSE live_drivers
                /\ IF init = "Exception"
                   THEN CallerStep(c, "uncaught", t,
                                   [callers[c] EXCEPT !.pc = "raised", !.wake = 0])
                   ELSE IF init # "ok"
                   THEN CallerExcept(c, "exception", t, FALSE)
                   ELSE CallerStep(c, "issued", t, sent)
    /\ UNCHANGED << calls, overlapped >>
    /\ SharedFrame

\* the request of an attempt ends, and the rest of the loop body runs
CallerAnswered(c) ==
    /\ callers[c].pc = "request"
    /\ LET t == At(c)
           r == callers[c].retries
       IN  IF UseRequests(r)
           THEN \/ CallerExcept(c, "exception", t, FALSE)
                \/ \E s \in Statuses, b \in Bodies :
                   IF EscalatingStatus(s)
                   THEN CallerContinue(c, "blocked_status", t, 0, TRUE)
                   ELSE IF is_error_page(b) # ""
                   THEN CallerContinue(c, "error_page", t, 0, TRUE)
                   ELSE IF raise_for_status(s)
                   THEN CallerExcept(c, "exception", t, TRUE)
                   ELSE CallerDeliver(c, t)
           ELSE \/ CallerExcept(c, "exception", t, FALSE)
                \/ IF TimeoutFatal(r, max_retries)
                   THEN CallerExcept(c, "wait_timeout", t + Ticks(10), FALSE)
                   ELSE CallerContinue(c, "wait_timeout", t + Ticks(10), 0, FALSE)
                \/ \E page \in Bodies, dyn \in Uniform(2, 4) :
                   LET error_type == is_error_page(page)
                   IN  IF error_type # ""
                       THEN IF SoftSuccess(error_type, r, max_retries)
                            THEN CallerStep(c, "soft_success", t + Ticks(dyn),
                                            [callers[c] EXCEPT !.pc = "after_loop"])
                            ELSE \E u \in Uniform(2, 5) :
                                 CallerContinue(c, "error_page", t + Ticks(dyn),
                                                ErrorPageWait(r + 1, u), FALSE)
                       ELSE CallerDeliver(c, t + Ticks(dyn))
    /\ UNCHANGED << driver, live_drivers, calls, overlapped >>
    /\ SharedFrame

\* return response, the statement after the loop
CallerReturn(c) ==
    /\ callers[c].pc = "after_loop"
    /\ CallerStep(c, "returned", At(c),
                  [callers[c] EXCEPT !.wake = 0,
                                     !.pc = IF callers[c].bound THEN "returned"
                                            ELSE "raised"])
    /\ UNCHANGED << driver, live_drivers, calls, overlapped >>
    /\ SharedFrame

SharedNext ==
    \E c \in Callers :
        \/ CallerGet(c)
        \/ CallerLimiter(c)
        \/ CallerIssue(c)
        \/ CallerAnswered(c)
        \/ CallerReturn(c)

SharedSpec == SharedInit /\ [][SharedNext]_vars

\* ------------------------------------------- _is_error_page on its own
\* the phrases a text is told apart by: the five signatures and the plain
\* word "error" outside of any signature
Phrases == Signatures \cup {"error"}

\* a text is known by the phrases it contains, any number of them
Texts == SUBSET Phrases

ClassifyInit ==
    /\ Constructed(MaxRetriesCfg)
    /\ text \in Texts
    /\ label = "unclassified"
    /\ ScraperIdle
    /\ MockIdle
    /\ ParserIdle
    /\ CallersIdle

\* is_error, error_type = self._is_error_page(html_content)
Classify ==
    /\ label = "unclassified"
    /\ label' = is_error_page(text)
    /\ UNCHANGED << client_vars, text, scraper_vars, mock_vars, parser_vars, caller_vars >>

ClassifySpec == ClassifyInit /\ [][Classify]_vars

\* ================================================================ scraper
\* FBrefScraper (src/fbref_scraper/scraper.py) as the command line program
\* (src/fbref_scraper/cli.py) runs it.  Strings are the strings of Python;
\* the operators below compute on their characters.

\* ---------------------------------------------------------------- strings
\* a in b, for two strings
StrIn(a, b) ==
    \E i \in 1..(Len(b) - Len(a) + 1) : SubSeq(b, i, i + Len(a) - 1) = a

UpperCase == "ABCDEFGHIJKLMNOPQRSTUVWXYZ"

LowerCase == "abcdefghijklmnopqrstuvwxyz"

lower_char(c) ==
    IF \E i \in 1..Len(UpperCase) : SubSeq(UpperCase, i, i) = c
    THEN LET i == CHOOSE n \in 1..Len(UpperCase) : SubSeq(UpperCase, n, n) = c
         IN  SubSeq(LowerCase, i, i)
    ELSE c

\* s.lower()
RECURSIVE lower(_)
lower(s) ==
    IF Len(s) = 0 THEN "" ELSE lower_char(Head(s)) \o lower(Tail(s))

\* s.replace(old, new), for a non-empty old
RECURSIVE replace(_, _, _)
replace(s, old, new) ==
    IF Len(s) < Len(old) THEN s
    ELSE IF SubSeq(s, 1, Len(old)) = old
         THEN new \o replace(SubSeq(s, Len(old) + 1, Len(s)), old, new)
         ELSE Head(s) \o replace(Tail(s), old, new)

\* the positions of the character c in s
Positions(c, s) == {i \in 1..Len(s) : SubSeq(s, i, i) = c}

Least(S) == CHOOSE n \in S : \A k \in S : n <= k

Greatest(S) == CHOOSE n \in S : \A k \in S : n >= k

\* s.split('/')[-1]
LastSegment(s) ==
    IF Positions("/", s) = {} THEN s
    ELSE SubSeq(s, Greatest(Positions("/", s)) + 1, Len(s))

\* the pattern without its closing slash: the id may run to the end
squads_id_Open(url) ==
    LET prefix == "/squads/"
        Starts == {i \in 1..(Len(url) - Len(prefix)) :
                     /\ SubSeq(url, i, i + Len(prefix) - 1) = prefix
                     /\ SubSeq(url, i + Len(prefix), i + Len(prefix)) # "/"}
    IN  IF Starts = {} THEN ""
        ELSE LET p == Least(Starts) + Len(prefix)
                 Ends == {j \in Positions("/", url) : j > p} \cup {Len(url) + 1}
             IN  SubSeq(url, p, Least(Ends) - 1)

\* re.search(r'/squads/([^/]+)/', url): group 1 of the leftmost match, ""
\* when the pattern matches nowhere (a match has a non-empty group)
squads_id(url) ==
    LET prefix == "/squads/"
        \* the id starts at p, ends before the next slash, and is not empty
        Ends(p) == {j \in Positions("/", url) : j > p}
        Starts == {i \in 1..(Len(url) - Len(prefix)) :
                     /\ SubSeq(url, i, i + Len(prefix) - 1) = prefix
                     /\ SubSeq(url, i + Len(prefix), i + Len(prefix)) # "/"
                     /\ Ends(i + Len(prefix)) # {}}
    IN  IF Starts = {} THEN ""
        ELSE LET p == Least(Starts) + Len(prefix)
             IN  SubSeq(url, p, Least(Ends(p)) - 1)

\* ------------------------------------------------------------ known teams
BASE_URL == "https://fbref.com"

SEARCH_URL == "https://fbref.com/en/search/search.fcgi"

\* KNOWN_TEAMS, in the order of its declaration (the order in which a dict
\* is iterated)
KNOWN_TEAMS == <<
    [key |-> "manchester city", id |-> "b8fd03ef", name |-> "Manchester City",
     matchlogs_url |->
       "/en/squads/b8fd03ef/matchlogs/all_comps/Manchester-City-Scores-and-Fixtures-All-Competitions"],
    [key |-> "manchester united", id |-> "19538871", name |-> "Manchester United",
     matchlogs_url |->
       "/en/squads/19538871/matchlogs/all_comps/Manchester-United-Scores-and-Fixtures-All-Competitions"],
    [key |-> "liverpool", id |-> "822bd0ba", name |-> "Liverpool",
     matchlogs_url |->
       "/en/squads/822bd0ba/matchlogs/all_comps/Liverpool-Scores-and-Fixtures-All-Competitions"],
    [key |-> "arsenal", id |-> "18bb7c10", name |-> "Arsenal",
     matchlogs_url |->
       "/en/squads/18bb7c10/matchlogs/all_comps/Arsenal-Scores-and-Fixtures-All-Competitions"],
    [key |-> "chelsea", id |-> "cff3d9bb", name |-> "Chelsea",
     matchlogs_url |->
       "/en/squads/cff3d9bb/matchlogs/all_comps/Chelsea-Scores-and-Fixtures-All-Competitions"],
    [key |-> "tottenham", id |-> "361ca564", name |-> "Tottenham Hotspur",
     matchlogs_url |->
       "/en/squads/361ca564/matchlogs/all_comps/Tottenham-Hotspur-Scores-and-Fixtures-All-Competitions"],
    [key |-> "barcelona", id |-> "206d90db", name |-> "Barcelona",
     matchlogs_url |->
       "/en/squads/206d90db/matchlogs/all_comps/Barcelona-Scores-and-Fixtures-All-Competitions"],
    [key |-> "real madrid", id |-> "53a2f082", name |-> "Real Madrid",
     matchlogs_url |->
       "/en/squads/53a2f082/matchlogs/all_comps/Real-Madrid-Scores-and-Fixtures-All-Competitions"]
>>

\* Team(name, fbref_id), with the matches it carries; NoTeam stands for None
Team(name, fbref_id) ==
    [found |-> TRUE, name |-> name, fbref_id |-> fbref_id, matches |-> << >>]

NoTeam == [found |-> FALSE, name |-> "", fbref_id |-> "", matches |-> << >>]

\* -------------------------------------------------- the table, looked up
\* for key, team_data in self.KNOWN_TEAMS.items(): the first record, in
\* declaration order, among those (`hits`) that pass the test of the loop;
\* 0 when the loop ends without one
FirstKnown(hits) == IF hits = {} THEN 0 ELSE Least(hits)

\* the test without its third part, team_key in key
NameHit_KeyInQueryOnly(key, team_key) ==
    key = team_key \/ StrIn(key, team_key)

\* get_team_by_name: if key == team_key or key in team_key or team_key in key
NameHit(key, team_key) ==
    key = team_key \/ StrIn(key, team_key) \/ StrIn(team_key, key)

\* search_team: if key == team_key or key in team_key
SearchHit(key, team_key) ==
    key = team_key \/ StrIn(key, team_key)

\* get_match_logs: if team_data['id'] == team.fbref_id or key == team_key
\*                    or key in team_key
MatchlogsHit(team_data, fbref_id, team_key) ==
    \/ team_data.id = fbref_id
    \/ team_data.key = team_key
    \/ StrIn(team_data.key, team_key)

\* ------------------------------------------------------------- documents
\* s.strip(), for the blanks a link text is padded with
RECURSIVE lstrip(_)
lstrip(s) == IF Len(s) > 0 /\ Head(s) = " " THEN lstrip(Tail(s)) ELSE s

RECURSIVE rstrip(_)
rstrip(s) ==
    IF Len(s) > 0 /\ SubSeq(s, Len(s), Len(s)) = " "
    THEN rstrip(SubSeq(s, 1, Len(s) - 1)) ELSE s

strip(s) == rstrip(lstrip(s))

\* the links a search page may show under .search-item-name: two clubs, a
\* player, and a squad link whose path ends with the id
SearchLinks == {
    [text |-> "Paris Saint-Germain",
     href |-> "/en/squads/e2d8892c/Paris-Saint-Germain-Stats"],
    [text |-> " Paris FC ", href |-> "/en/squads/056a5a75/Paris-FC-Stats"],
    [text |-> "Paris Brunner", href |-> "/en/players/4c370d81/Paris-Brunner"],
    [text |-> "Paris 13 Atletico", href |-> "/en/squads/0b5d7f22"] }

\* most links on a search page
MaxLinks == 2

RECURSIVE Seqs(_, _)
Seqs(S, n) ==
    IF n = 0 THEN {<< >>}
    ELSE Seqs(S, n - 1) \cup
         {Append(q, x) : q \in {r \in Seqs(S, n - 1) : Len(r) = n - 1}, x \in S}

\* a search page is known by its links, in document order
SearchPages == Seqs(SearchLinks, MaxLinks)

\* parse_team_search_results, on the links of the page
RECURSIVE parse_team_search_results(_)
parse_team_search_results(html) ==
    IF html = << >> THEN << >>
    ELSE LET link == Head(html)
             team_url == "https://fbref.com" \o link.href
             team_id == squads_id(team_url)
             rest == parse_team_search_results(Tail(html))
         IN  IF StrIn("/squads/", link.href) /\ team_id # ""
             THEN << [name |-> strip(link.text), url |-> team_url,
                      id |-> team_id] >> \o rest
             ELSE rest

\* a team page is known by its h1[itemprop="name"] text ("": no such
\* element) and by the href of its Match Logs link ("": no such link)
TeamPages ==
    [name : {"", "Paris Saint-Germain "},
     matchlogs_href : {"", "/en/squads/e2d8892c/2024-2025/matchlogs/all_comps/Paris-Saint-Germain-Scores-and-Fixtures-All-Competitions"}]

\* parse_team_page: team_info.get('name') and team_info['matchlogs_url'],
\* "" standing for a missing name and for None
parse_team_page(html) ==
    [name |-> strip(html.name),
     matchlogs_url |-> IF html.matchlogs_href = "" THEN ""
                       ELSE "https://fbref.com" \o html.matchlogs_href]

\* ------------------------------------------------------------ conversions
\* what a conversion gives: a value, or the ValueError it raises
ValueError == [ok |-> FALSE]

Value(v) == [ok |-> TRUE, value |-> v]

\* the decimal digits and what they stand for
Digits ==
    "0" :> 0 @@ "1" :> 1 @@ "2" :> 2 @@ "3" :> 3 @@ "4" :> 4 @@
    "5" :> 5 @@ "6" :> 6 @@ "7" :> 7 @@ "8" :> 8 @@ "9" :> 9

IsDigits(s) ==
    /\ Len(s) > 0
    /\ \A i \in 1..Len(s) : SubSeq(s, i, i) \in DOMAIN Digits

\* the number a string of digits writes
RECURSIVE Decimal(_)
Decimal(s) ==
    IF Len(s) = 0 THEN 0
    ELSE 10 * Decimal(SubSeq(s, 1, Len(s) - 1))
         + Digits[SubSeq(s, Len(s), Len(s))]

HasSign(s) == Len(s) > 0 /\ SubSeq(s, 1, 1) \in {"+", "-"}

Unsigned(s) == IF HasSign(s) THEN Tail(s) ELSE s

Signed(s, magnitude) ==
    IF HasSign(s) /\ SubSeq(s, 1, 1) = "-" THEN 0 - magnitude ELSE magnitude

\* int(value) of a stripped text: an optional sign and digits
int(value) ==
    IF IsDigits(Unsigned(value))
    THEN Value(Signed(value, Decimal(Unsigned(value))))
    ELSE ValueError

\* a float is held in thousandths
Thousand == 1000

\* float(value) of a stripped text: an optional sign, digits, and at most
\* one point with digits on either side of it (the first three decimals
\* are kept)
float(value) ==
    LET body == Unsigned(value)
        points == Positions(".", body)
        whole == IF points = {} THEN body
                 ELSE SubSeq(body, 1, Least(points) - 1)
        part == IF points = {} THEN ""
                ELSE SubSeq(body, Least(points) + 1, Len(body))
        kept == SubSeq(part \o "000", 1, 3)
    IN  IF /\ Cardinality(points) <= 1
           /\ whole = "" \/ IsDigits(whole)
           /\ part = "" \/ IsDigits(part)
           /\ Len(whole) + Len(part) > 0
        THEN Value(Signed(value, Thousand * Decimal(whole) + Decimal(kept)))
        ELSE ValueError

\* a transform that leaves the sign where it is
rstrip_percent_Kept(x) == x

\* x.rstrip('%')
RECURSIVE rstrip_percent(_)
rstrip_percent(x) ==
    IF Len(x) > 0 /\ SubSeq(x, Len(x), Len(x)) = "%"
    THEN rstrip_percent(SubSeq(x, 1, Len(x) - 1)) ELSE x

\* s.split(sep), for a separator of one character
RECURSIVE split(_, _)
split(s, sep) ==
    IF Positions(sep, s) = {} THEN << s >>
    ELSE << SubSeq(s, 1, Least(Positions(sep, s)) - 1) >>
         \o split(SubSeq(s, Least(Positions(sep, s)) + 1, Len(s)), sep)

\* the days of a month of the proleptic Gregorian calendar
DaysIn(year, month) ==
    IF month = 2
    THEN IF year % 4 = 0 /\ (year % 100 # 0 \/ year % 400 = 0) THEN 29 ELSE 28
    ELSE IF month \in {4, 6, 9, 11} THEN 30 ELSE 31

\* a strptime that takes any text for a date
strptime_Lenient(date_str) == Value([year |-> 1, month |-> 1, day |-> 1])

\* datetime.strptime(date_str, '%Y-%m-%d').date(): four digits, one or two
\* digits and one or two digits between dashes, naming a day that exists
strptime(date_str) ==
    LET parts == split(date_str, "-")
    IN  IF /\ Len(parts) = 3
           /\ Len(parts[1]) = 4 /\ IsDigits(parts[1])
           /\ Len(parts[2]) \in 1..2 /\ IsDigits(parts[2])
           /\ Len(parts[3]) \in 1..2 /\ IsDigits(parts[3])
           /\ Decimal(parts[1]) >= 1
           /\ Decimal(parts[2]) \in 1..12
           /\ Decimal(parts[3]) \in
                  1..DaysIn(Decimal(parts[1]), Decimal(parts[2]))
        THEN Value([year |-> Decimal(parts[1]), month |-> Decimal(parts[2]),
                    day |-> Decimal(parts[3])])
        ELSE ValueError

\* most match rows in the first table of a match-log page
MaxRows == 2

\* ------------------------------------------------------- match-log pages
\* a match-log page is known by its tables, in document order; a table by
\* its class attribute and the rows of its body; a row by its class
\* attribute and the texts of its cells, one for each data-stat it has
Row(class, cells) == [class |-> class, cells |-> cells]

Table(class, rows) == [class |-> class, rows |-> rows]

\* the two rows of tests/test_parser.py
ArsenalRow ==
    Row({}, [date |-> "2023-05-01", opponent |-> "Arsenal", venue |-> "Home",
             goals_for |-> "3", goals_against |-> "1", shots |-> "15",
             shots_on_target |-> "8", possession |-> "60.2%",
             passes_completed |-> "500", passes_pct |-> "88.5%",
             corners |-> "7", corners_against |-> "3", fouls |-> "10",
             fouled |-> "12"])

ChelseaRow ==
    Row({}, [date |-> "2023-04-25", opponent |-> "Chelsea", venue |-> "Away",
             goals_for |-> "2", goals_against |-> "2", shots |-> "12",
             shots_on_target |-> "5", possession |-> "55.8%",
             passes_completed |-> "450", passes_pct |-> "85.0%",
             corners |-> "6", corners_against |-> "4", fouls |-> "8",
             fouled |-> "9"])

\* the pages a match-log request is answered with: one stats table of
\* 0..MaxRows rows, those two in turn
MatchLogPages ==
    {<< Table({"stats_table"},
              [i \in 1..k |-> IF i % 2 = 1 THEN ArsenalRow ELSE ChelseaRow]) >> :
        k \in 0..MaxRows}

\* row.select_one('td[data-stat="..."]'): << >> stands for None, << text >>
\* for the cell
select_one(row, data_stat) ==
    IF data_stat \in DOMAIN row.cells THEN << row.cells[data_stat] >>
    ELSE << >>

\* the elements of seq whose index is in keep, in the order of seq
RECURSIVE Subsequence(_, _)
Subsequence(seq, keep) ==
    IF seq = << >> THEN << >>
    ELSE LET front == Subsequence(SubSeq(seq, 1, Len(seq) - 1), keep)
         IN  IF Len(seq) \in keep THEN Append(front, seq[Len(seq)]) ELSE front

\* seq[:n]
Slice(seq, n) ==
    IF n >= 0 THEN SubSeq(seq, 1, Min(Len(seq), n))
    ELSE SubSeq(seq, 1, Len(seq) + n)

\* _extract_cell_value up to its returns: the converted value, or ValueError
\* wherever the function returns default_value.  The transform handed in
\* is lambda x: float(x.rstrip('%')), and data_type, float, leaves what it
\* returns as it is
converted(row, stat_name, data_type, transform) ==
    LET cell == select_one(row, stat_name)
        value == strip(cell[1])
        stripped == rstrip_percent(value)
    IN  IF cell = << >> THEN ValueError
        ELSE IF value = "" THEN ValueError
        ELSE IF transform = "rstrip_percent" THEN float(stripped)
        ELSE IF data_type = "int" THEN int(value)
        ELSE float(value)

\* _extract_cell_value(row, stat_name, data_type, default_value, transform)
extract_cell_value(row, stat_name, data_type, default_value, transform) ==
    LET v == converted(row, stat_name, data_type, transform)
    IN  IF v.ok THEN v.value ELSE default_value

\* an Optional[int] is held as a sequence: << >> is None, << n >> is n
None == << >>

\* _extract_cell_value(row, stat_name, int, None)
extract_optional(row, stat_name) ==
    LET v == converted(row, stat_name, "int", "")
    IN  IF v.ok THEN << v.value >> ELSE None

\* cell.text.strip() if cell else "Unknown"
text_or_unknown(cell) == IF cell = << >> THEN "Unknown" ELSE strip(cell[1])

\* shots_off_target = shots - shots_on_target
shots_off_target(shots, shots_on_target) == shots - shots_on_target

\* _parse_match_row: None, the ValueError of strptime, or a Match
parse_match_row(row) ==
    LET date_cell == select_one(row, "date")
        date_str == strip(date_cell[1])
        match_date == strptime(date_str)
    IN  IF date_cell = << >> THEN [returned |-> "None"]
        ELSE IF date_str = "" THEN [returned |-> "None"]
        ELSE IF ~match_date.ok THEN [returned |-> "raised"]
        ELSE LET shots == extract_cell_value(row, "shots", "int", 0, "")
                 on_target == extract_cell_value(row, "shots_on_target",
                                                 "int", 0, "")
             IN  [returned |-> "Match",
                  match |->
                    [date |-> match_date.value,
                     opponent |-> text_or_unknown(select_one(row, "opponent")),
                     venue |-> text_or_unknown(select_one(row, "venue")),
                     goals_for |->
                       extract_cell_value(row, "goals_for", "int", 0, ""),
                     goals_against |->
                       extract_cell_value(row, "goals_against", "int", 0, ""),
                     shots |-> shots,
                     shots_on_target |-> on_target,
                     shots_off_target |-> shots_off_target(shots, on_target),
                     possession_pct |->
                       extract_cell_value(row, "possession", "float", 0,
                                          "rstrip_percent"),
                     passes_completed |->
                       extract_cell_value(row, "passes_completed", "int", 0, ""),
                     pass_accuracy_pct |->
                       extract_cell_value(row, "passes_pct", "float", 0,
                                          "rstrip_percent"),
                     corners_for |-> extract_optional(row, "corners"),
                     corners_against |->
                       extract_optional(row, "corners_against"),
                     fouls_committed |-> extract_optional(row, "fouls"),
                     fouls_suffered |-> extract_optional(row, "fouled")]]

\* the tables soup.select('table.stats_table') finds
match_tables(html) ==
    Subsequence(html, {i \in 1..Len(html) : "stats_table" \in html[i].class})

\* the rows of a table body with none left out
match_rows_All(rows) == rows

\* the rows left of a table body: [row for row in rows if not
\* row.get('class') or 'spacer' not in row['class']]
match_rows(rows) ==
    Subsequence(rows, {i \in 1..Len(rows) : "spacer" \notin rows[i].class})

\* a parser that drops the rows it cannot convert before it applies the
\* limit, so that later rows fill the places of the dropped ones
parse_match_logs_Refilled(html, n) ==
    IF match_tables(html) = << >> THEN << >>
    ELSE LET seen == match_rows(match_tables(html)[1].rows)
             outcomes == [i \in 1..Len(seen) |-> parse_match_row(seen[i])]
             good == Subsequence(outcomes, {i \in 1..Len(seen) :
                                              outcomes[i].returned = "Match"})
         IN  [i \in 1..Len(Slice(good, n)) |-> good[i].match]

\* parse_match_logs: the Matches of match_rows[:num_matches] of the first
\* stats table; a row for which _parse_match_row returns None or raises
\* adds nothing
parse_match_logs(html, n) ==
    IF match_tables(html) = << >> THEN << >>
    ELSE LET seen == Slice(match_rows(match_tables(html)[1].rows), n)
             outcomes == [i \in 1..Len(seen) |-> parse_match_row(seen[i])]
             good == Subsequence(outcomes,
                                 {i \in 1..Len(seen) :
                                    outcomes[i].returned = "Match"})
         IN  [i \in 1..Len(good) |-> good[i].match]

\* -------------------------------------------------------------- mock data
\* TEAM_DATA as the module declares it, in the order of its declaration,
\* with the number of matches each entry lists
TEAM_DATA == <<
    [key |-> "manchester city", name |-> "Manchester City",
     fbref_id |-> "b8fd03ef", matches |-> 7],
    [key |-> "manchester united", name |-> "Manchester United",
     fbref_id |-> "19538871", matches |-> 7],
    [key |-> "liverpool", name |-> "Liverpool",
     fbref_id |-> "822bd0ba", matches |-> 0] >>

\* the i-th Match listed under an entry of TEAM_DATA
MockMatch(fbref_id, i) == [source |-> "mock", team |-> fbref_id, row |-> i]

\* a lookup that hands out fewer matches the more lookups were made
MockTeam_Drained(team_data, n) ==
    [found |-> TRUE, name |-> team_data.name, fbref_id |-> team_data.fbref_id,
     matches |-> [i \in 1..Min(team_data.matches - Len(resolutions), n) |->
                     [source |-> "mock", team |-> team_data.fbref_id,
                      row |-> i]]]

\* Team(...) with team.matches = team_data["matches"][:num_matches]
MockTeam(team_data, n) ==
    [found |-> TRUE, name |-> team_data.name, fbref_id |-> team_data.fbref_id,
     matches |-> [i \in 1..Min(team_data.matches, n) |->
                     MockMatch(team_data.fbref_id, i)]]

\* get_mock_team: the exact key first, then the first key that holds the
\* name or is held by it
get_mock_team(team_name, n) ==
    LET team_key == lower(team_name)
        exact == {i \in 1..Len(dataset) : dataset[i].key = team_key}
        partial == {i \in 1..Len(dataset) :
                      \/ StrIn(dataset[i].key, team_key)
                      \/ StrIn(team_key, dataset[i].key)}
    IN  IF exact # {} THEN MockTeam(dataset[Least(exact)], n)
        ELSE IF partial # {} THEN MockTeam(dataset[Least(partial)], n)
        ELSE NoTeam

\* ------------------------------------------------ http_client.get, called
\* get as its caller sees it: a call ends by raising or by returning a
\* response, whose text is the document read by the parser (Spec above
\* follows the call itself)
Raised == [raised |-> TRUE]

Answers(pages) == {Raised} \cup {[raised |-> FALSE, text |-> html] : html \in pages}

\* the record of one call in `requested`
Request(purpose, url, answer) ==
    IF answer.raised
    THEN [purpose |-> purpose, url |-> url, raised |-> TRUE]
    ELSE [purpose |-> purpose, url |-> url, raised |-> FALSE,
          text |-> answer.text]

\* self.driver after a get call that found it as d: the call creates the
\* driver if it comes to a browser attempt and self.driver is None
GetOutcomeDrivers(d) == IF DriverMissing(d) THEN {d, "live"} ELSE {d}

\* the driver after `n` get calls made one after the other
AfterGets(n) ==
    IF n = 0 THEN UNCHANGED << driver, live_drivers >>
    ELSE \E d \in GetOutcomeDrivers(driver) :
         /\ driver' = d
         /\ live_drivers' = IF d # driver THEN live_drivers + 1 ELSE live_drivers

\* --------------------------------------------------- resolving the team
\* the entry of the list the last one is taken from, instead of the first
SelectedResult_Last(search_results) == search_results[Len(search_results)]

\* team_info = search_results[0]
SelectedResult(search_results) == search_results[1]

\* search_team; `answer` is what http_client.get does if it is called
search_team(team_name, answer) ==
    LET team_key == lower(team_name)
        known == FirstKnown({i \in 1..Len(KNOWN_TEAMS) :
                               SearchHit(KNOWN_TEAMS[i].key, team_key)})
    IN  IF known # 0
        THEN [results |->
                << [name |-> KNOWN_TEAMS[known].name,
                    id |-> KNOWN_TEAMS[known].id,
                    url |-> BASE_URL \o "/en/squads/" \o KNOWN_TEAMS[known].id
                            \o "/" \o replace(KNOWN_TEAMS[known].name, " ", "-")
                            \o "-Stats"] >>,
              requests |-> << >>]
        ELSE [results |-> IF answer.raised THEN << >>
                          ELSE parse_team_search_results(answer.text),
              requests |-> << Request("search",
                                      SEARCH_URL \o "?search=" \o team_name,
                                      answer) >>]

\* get_team_by_name
get_team_by_name(team_name, answer) ==
    LET team_key == lower(team_name)
        known == FirstKnown({i \in 1..Len(KNOWN_TEAMS) :
                               NameHit(KNOWN_TEAMS[i].key, team_key)})
        found == search_team(team_name, answer)
    IN  IF known # 0
        THEN [team |-> Team(KNOWN_TEAMS[known].name, KNOWN_TEAMS[known].id),
              requests |-> << >>]
        ELSE [team |-> IF found.results = << >> THEN NoTeam
                       ELSE Team(SelectedResult(found.results).name,
                                 SelectedResult(found.results).id),
              requests |-> found.requests]

\* the id of the URL taken for unknown whatever it is
KnownId_Never(team_data, team_id) == FALSE

\* every record taken to have the id of the URL
KnownId_Always(team_data, team_id) == TRUE

\* get_team_by_url: if team_data['id'] == team_id
KnownId(team_data, team_id) == team_data.id = team_id

\* get_team_by_url; an exception of get or of parse_team_page ends in the
\* handler that names the team after the last segment of the URL
get_team_by_url(url, answer) ==
    LET team_id == squads_id(url)
        known == FirstKnown({i \in 1..Len(KNOWN_TEAMS) :
                               KnownId(KNOWN_TEAMS[i], team_id)})
        team_info == parse_team_page(answer.text)
    IN  IF ~StrIn("/squads/", url) \/ team_id = ""
        THEN [team |-> NoTeam, requests |-> << >>]
        ELSE IF known # 0
        THEN [team |-> Team(KNOWN_TEAMS[known].name, team_id),
              requests |-> << >>]
        ELSE [team |-> IF answer.raised
                       THEN Team(replace(replace(LastSegment(url), "-Stats", ""),
                                         "-", " "),
                                 team_id)
                       ELSE IF team_info.name = "" THEN NoTeam
                       ELSE Team(team_info.name, team_id),
              requests |-> << Request("team_url", url, answer) >>]

\* ------------------------------------------------------ the match logs
\* default of --matches
DefaultMatches == 7

\* the values of --matches tried
MatchLimits == {1, DefaultMatches}

\* parse_match_logs over the pages and the limits of a run, worked out once
ParsedLogs ==
    [html \in MatchLogPages |->
        [n \in MatchLimits |-> parse_match_logs(html, n)]]

\* the synthetic data never used
MockAllowed_Never(flag) == FALSE

\* the synthetic data used whatever the scraper was constructed with
MockAllowed_Always(flag) == TRUE

\* if self.use_mock_data
MockAllowed(flag) == flag

\* an except branch that hands back a row of a page read before the failure
MatchLogsFailed_Partial(tm, n, requests) ==
    [matches |-> parse_match_logs(<< Table({"stats_table"}, << ArsenalRow >>) >>, n),
     requests |-> requests,
     parsed |-> << >>,
     lookups |-> 0]

\* the except branch of get_match_logs
MatchLogsFailed(tm, n, requests) ==
    LET mock_team == get_mock_team(tm.name, n)
    IN  [matches |-> IF MockAllowed(use_mock_data) /\ mock_team.found
                        /\ mock_team.matches # << >>
                     THEN mock_team.matches ELSE << >>,
         requests |-> requests,
         parsed |-> << >>,
         lookups |-> IF MockAllowed(use_mock_data) THEN 1 ELSE 0]

\* the direct URL tried whatever the team page links to
PageMatchlogsUrl_Direct(found_url, direct_url) == direct_url

\* if not team_info.get('matchlogs_url'): the direct URL, else the URL of
\* the Match Logs link of the team page
PageMatchlogsUrl(found_url, direct_url) ==
    IF found_url = "" THEN direct_url ELSE found_url

\* get_match_logs; page_answer and logs_answer are what http_client.get
\* does for the team page and for the match-log page, if it is called
get_match_logs(tm, n, page_answer, logs_answer) ==
    LET team_key == lower(tm.name)
        known == FirstKnown({i \in 1..Len(KNOWN_TEAMS) :
                               MatchlogsHit(KNOWN_TEAMS[i], tm.fbref_id, team_key)})
        slug == replace(tm.name, " ", "-")
        team_url == BASE_URL \o "/en/squads/" \o tm.fbref_id \o "/" \o slug
                    \o "-Stats"
        direct_url == BASE_URL \o "/en/squads/" \o tm.fbref_id
                      \o "/matchlogs/all_comps/" \o slug
                      \o "-Scores-and-Fixtures-All-Competitions"
        team_info == parse_team_page(page_answer.text)
        page_requests == IF known # 0 THEN << >>
                         ELSE << Request("team_page", team_url, page_answer) >>
        matchlogs_url == IF known # 0
                         THEN BASE_URL \o KNOWN_TEAMS[known].matchlogs_url
                         ELSE PageMatchlogsUrl(team_info.matchlogs_url, direct_url)
    IN  IF known = 0 /\ page_answer.raised
        THEN MatchLogsFailed(tm, n, page_requests)
        ELSE LET requests == Append(page_requests,
                                    Request("matchlogs", matchlogs_url, logs_answer))
             IN  IF logs_answer.raised
                 THEN MatchLogsFailed(tm, n, requests)
                 ELSE LET found == ParsedLogs[logs_answer.text][n]
                      IN  [matches |-> found,
                           requests |-> requests,
                           parsed |-> found,
                           lookups |-> 0]

\* ---------------------------------------------------------- one run
\* default of the constructor's max_retries, which FBrefScraper leaves as is
DefaultMaxRetries == 3

\* the values of --team tried
TeamNames == {"Arsenal", "Liverpool", "man", "united", "man city",
              "Arsenal FC", "PSG"}

\* the values of --url tried: a known id, a known id under another path, two
\* unknown ids, a squad URL that ends with the id, and no squad URL
TeamUrls == {"https://fbref.com/en/squads/822bd0ba/Liverpool-Stats",
             "https://fbref.com/en/squads/18bb7c10/2023-2024/Arsenal-Stats",
             "https://fbref.com/en/squads/e2d8892c/Paris-Saint-Germain-Stats",
             "https://fbref.com/en/squads/d6a369a2/Manchester-City-Women-Stats",
             "https://fbref.com/en/squads/b8fd03ef",
             "https://fbref.com/en/comps/9/Liverpool-Stats"}

\* main has parsed its arguments and constructed the scraper
RunInit ==
    /\ Constructed(DefaultMaxRetries)
    /\ ClassifierIdle
    /\ \/ team_identifier \in TeamNames /\ is_url = FALSE
       \/ team_identifier \in TeamUrls /\ is_url = TRUE
    /\ num_matches \in MatchLimits
    /\ force_mock \in BOOLEAN
    /\ use_mock_data \in {mock \in BOOLEAN : force_mock => mock}
    /\ at = "main"
    /\ team = NoTeam
    /\ matches = << >>
    /\ fetched = NoTeam
    /\ requested = << >>
    /\ parsed = << >>
    /\ mock_lookups = 0
    /\ exit_code = -1
    /\ dataset = TEAM_DATA
    /\ known_teams = KNOWN_TEAMS
    /\ resolutions = << >>
    /\ ParserIdle
    /\ CallersIdle

\* return <code> in main: the finally clause is what is left to run
Exit(code) ==
    /\ exit_code' = code
    /\ at' = "finally"

\* --force-mock: team = get_mock_team(team_identifier, args.matches)
ForceMock ==
    /\ at = "main"
    /\ force_mock
    /\ fetched' = get_mock_team(team_identifier, num_matches)
    /\ mock_lookups' = mock_lookups + 1
    /\ IF fetched'.found
       THEN at' = "write" /\ exit_code' = exit_code
       ELSE Exit(1)
    /\ UNCHANGED << team_identifier, is_url, num_matches, force_mock,
                    use_mock_data, team, matches, requested, parsed >>
    /\ UNCHANGED << client_vars, classifier_vars, mock_vars, parser_vars, caller_vars >>

\* if not team: return None
NotFound_Never(tm) == FALSE

NotFound(tm) == ~tm.found

\* fetch_team_data up to its test of team: get_team_by_url or
\* get_team_by_name, with the get call either of them may make
ResolveTeam ==
    /\ at = "main"
    /\ ~force_mock
    /\ \E answer \in (IF is_url THEN Answers(TeamPages) ELSE Answers(SearchPages)) :
       LET resolved == IF is_url THEN get_team_by_url(team_identifier, answer)
                       ELSE get_team_by_name(team_identifier, answer)
       IN  /\ team' = resolved.team
           /\ requested' = requested \o resolved.requests
           /\ AfterGets(Len(resolved.requests))
    /\ IF NotFound(team')
       THEN fetched' = NoTeam /\ at' = "fetched"
       ELSE fetched' = fetched /\ at' = "match_logs"
    /\ UNCHANGED << team_identifier, is_url, num_matches, force_mock,
                    use_mock_data, matches, parsed, mock_lookups, exit_code >>
    /\ UNCHANGED << call_vars, classifier_vars, mock_vars, parser_vars, caller_vars >>

\* matches = self.get_match_logs(team, num_matches=num_matches)
GetMatchLogs ==
    /\ at = "match_logs"
    /\ \E page_answer \in Answers(TeamPages), logs_answer \in Answers(MatchLogPages) :
       \E logs \in {get_match_logs(team, num_matches, page_answer, logs_answer)} :
           /\ matches' = logs.matches
           /\ requested' = requested \o logs.requests
           /\ parsed' = logs.parsed
           /\ mock_lookups' = mock_lookups + logs.lookups
           /\ AfterGets(Len(logs.requests))
    /\ at' = "logs_done"
    /\ UNCHANGED << team_identifier, is_url, num_matches, force_mock,
                    use_mock_data, team, fetched, exit_code >>
    /\ UNCHANGED << call_vars, classifier_vars, mock_vars, parser_vars, caller_vars >>

\* the rest of fetch_team_data: the synthetic team when there are no
\* matches and the scraper may use it, else the team with its matches
ReturnTeam ==
    /\ at = "logs_done"
    /\ LET consult == matches = << >> /\ MockAllowed(use_mock_data)
           mock_team == get_mock_team(team.name, num_matches)
       IN  /\ mock_lookups' = IF consult THEN mock_lookups + 1 ELSE mock_lookups
           /\ fetched' = IF consult /\ mock_team.found THEN mock_team
                         ELSE [team EXCEPT !.matches = matches]
    /\ at' = "fetched"
    /\ UNCHANGED << team_identifier, is_url, num_matches, force_mock,
                    use_mock_data, team, matches, requested, parsed, exit_code >>
    /\ UNCHANGED << client_vars, classifier_vars, mock_vars, parser_vars, caller_vars >>

\* main after fetch_team_data: no team and no matches end the run with 1
Report ==
    /\ at = "fetched"
    /\ IF ~fetched.found \/ fetched.matches = << >>
       THEN Exit(1)
       ELSE at' = "write" /\ exit_code' = exit_code
    /\ UNCHANGED << team_identifier, is_url, num_matches, force_mock,
                    use_mock_data, team, matches, fetched, requested, parsed,
                    mock_lookups >>
    /\ UNCHANGED << client_vars, classifier_vars, mock_vars, parser_vars, caller_vars >>

\* write_to_csv(team, ...); return 0.  Opening or writing the file may raise
\* an OSError, which except Exception turns into return 1
WriteToCsv ==
    /\ at = "write"
    /\ \/ Exit(0)
       \/ fetched.matches # << >> /\ Exit(1)
    /\ UNCHANGED << team_identifier, is_url, num_matches, force_mock,
                    use_mock_data, team, matches, fetched, requested, parsed,
                    mock_lookups >>
    /\ UNCHANGED << client_vars, classifier_vars, mock_vars, parser_vars, caller_vars >>

\* except KeyboardInterrupt: return 130, wherever the try block had come to
Interrupt ==
    /\ at \in {"main", "match_logs", "logs_done", "fetched", "write"}
    /\ Exit(130)
    /\ UNCHANGED << team_identifier, is_url, num_matches, force_mock,
                    use_mock_data, team, matches, fetched, requested, parsed,
                    mock_lookups >>
    /\ UNCHANGED << client_vars, classifier_vars, mock_vars, parser_vars, caller_vars >>

\* finally: del scraper, which runs FBrefScraper.__del__ and with it
\* http_client.close().  close calls self.driver.quit() when self.driver is
\* set; when quit raises, the exception is logged, self.driver stays set,
\* and whether the browser has gone is not known
Cleanup ==
    /\ at = "finally"
    /\ IF driver = "None"
       THEN UNCHANGED << driver, live_drivers >>
       ELSE \/ driver' = "None" /\ live_drivers' = live_drivers - 1
            \/ /\ driver' = driver
               /\ live_drivers' \in {live_drivers, live_drivers - 1}
    /\ at' = "exited"
    /\ UNCHANGED << team_identifier, is_url, num_matches, force_mock,
                    use_mock_data, team, matches, fetched, requested, parsed,
                    mock_lookups, exit_code >>
    /\ UNCHANGED << call_vars, classifier_vars, mock_vars, parser_vars, caller_vars >>

RunNext ==
    \/ ForceMock
    \/ ResolveTeam
    \/ GetMatchLogs
    \/ ReturnTeam
    \/ Report
    \/ WriteToCsv
    \/ Interrupt
    \/ Cleanup

ScraperSpec == RunInit /\ [][RunNext]_vars

\* ====================================================== the dataset alone
\* get_mock_team called again and again in one process, as --force-mock
\* calls it, with the team or the URL of the command line
\* most lookups made
MaxResolutions == 2

\* the names looked up: keys in other spellings, parts of keys, names that
\* hold a key, a name the dataset does not know, and a URL
MockNames == {"Manchester City", "manchester united", "LIVERPOOL",
              "Manchester", "United", "Liverpool FC", "Arsenal",
              "https://fbref.com/en/squads/822bd0ba/Liverpool-Stats"}

\* the values of --matches looked up with
MockLimits == {0} \cup MatchLimits

MockInit ==
    /\ Constructed(DefaultMaxRetries)
    /\ ClassifierIdle
    /\ ScraperIdle
    /\ ParserIdle
    /\ CallersIdle
    /\ dataset = TEAM_DATA
    /\ known_teams = KNOWN_TEAMS
    /\ resolutions = << >>

\* team = get_mock_team(team_identifier, args.matches): the function reads
\* TEAM_DATA, builds a new Team around a slice of the entry's list, and
\* writes to neither table
GetMockTeam ==
    /\ Len(resolutions) < MaxResolutions
    /\ \E team_name \in MockNames, n \in MockLimits :
          resolutions' = Append(resolutions,
                                [team_name |-> team_name, num_matches |-> n,
                                 team |-> get_mock_team(team_name, n)])
    /\ UNCHANGED << dataset, known_teams >>
    /\ UNCHANGED << client_vars, classifier_vars, scraper_vars, parser_vars, caller_vars >>

MockSpec == MockInit /\ [][GetMockTeam]_vars

\* ======================================================= the parser alone
\* parse_match_logs and parse_team_search_results (src/fbref_scraper/
\* parser.py) called on one document each
\* the data-stat names _parse_match_row reads
Stats == {"date", "opponent", "venue", "goals_for", "goals_against",
          "shots", "shots_on_target", "possession", "passes_completed",
          "passes_pct", "corners", "corners_against", "fouls", "fouled"}

\* row with the text of one cell replaced, or the cell added
WithCell(row, stat_name, cell_text) ==
    Row(row.class,
        [c \in DOMAIN row.cells \cup {stat_name} |->
            IF c = stat_name THEN cell_text ELSE row.cells[c]])

\* row without one cell
WithoutCell(row, stat_name) ==
    Row(row.class, [c \in DOMAIN row.cells \ {stat_name} |-> row.cells[c]])

\* rows that are not matches: a spacer that has the cells of a match, a
\* header row repeated in the body, and rows whose date is missing, blank,
\* no date at all, or a day that does not exist
SpacerRow == Row({"spacer", "partial_table"}, ArsenalRow.cells)

PostponedRow == WithCell(ChelseaRow, "date", "TBD")

\* the rows the tables of the documents are put together from
TableRows == {ArsenalRow, ChelseaRow, SpacerRow, PostponedRow,
              Row({"thead"}, [opponent |-> "Opponent", venue |-> "Venue"]),
              WithoutCell(ChelseaRow, "date"),
              WithCell(ChelseaRow, "date", "  "),
              WithCell(ChelseaRow, "date", "2023-02-30")}

\* documents that differ in their tables and rows: no table, one stats
\* table, a table of another class before it, a second stats table after it
LayoutDocuments ==
    {<< >>}
    \cup {<< Table({"stats_table"}, rows) >> : rows \in Seqs(TableRows, MaxRows)}
    \cup {<< Table({"sortable"}, << ChelseaRow >>),
             Table({"stats_table", "sortable"}, rows) >> :
            rows \in Seqs(TableRows, MaxRows)}
    \cup {<< Table({"stats_table"}, rows),
             Table({"stats_table"}, << ChelseaRow, ArsenalRow >>) >> :
            rows \in Seqs(TableRows, MaxRows)}

\* the texts a cell is given: blank ones, words, whole numbers, a negative
\* number, decimals, and percentages well and badly formed
CellTexts == {"", "  ", "abc", "12", " 12 ", "-3", "12.5", "45.5%", "45.5",
              "x%", "%", "7%%", "4%5"}

\* documents of one row that differ in their cells: the Arsenal row with
\* one cell missing or given another text, and with the venue and the two
\* shot cells varied together
VenueTexts == {"Home", "Away", "Neutral", "", "home"}

OneCellRows ==
    {WithoutCell(ArsenalRow, stat_name) : stat_name \in Stats}
    \cup {WithCell(ArsenalRow, stat_name, cell_text) :
            stat_name \in Stats, cell_text \in CellTexts}

ShotRows ==
    {WithCell(WithCell(WithCell(ArsenalRow, "venue", venue), "shots", shots),
              "shots_on_target", on_target) :
        venue \in VenueTexts, shots \in CellTexts, on_target \in CellTexts}
    \cup {WithoutCell(WithCell(row, "venue", venue), "shots_on_target") :
            row \in OneCellRows, venue \in VenueTexts}

MatchLogDocuments ==
    LayoutDocuments
    \cup {<< Table({"stats_table"}, << row >>) >> :
            row \in OneCellRows \cup ShotRows}

\* the limits handed to parse_match_logs: positive, below and above the
\* number of rows
ParseLimits == 1..MaxRows \cup {DefaultMatches}

\* what a result of the search page shows under .search-item-name: its
\* first link, with the links above and one that has no href
ResultLinks == SearchLinks \cup {[text |-> "Paris Masters", href |-> ""]}

SearchDocuments == Seqs(ResultLinks, MaxLinks)

ParserInit ==
    /\ Constructed(DefaultMaxRetries)
    /\ ClassifierIdle
    /\ ScraperIdle
    /\ MockIdle
    /\ CallersIdle
    /\ \/ /\ parser = "parse_match_logs"
          /\ document \in MatchLogDocuments
          /\ limit \in ParseLimits
       \/ /\ parser = "parse_team_search_results"
          /\ document \in SearchDocuments
          /\ limit = 0
    /\ records = << >>
    /\ parser_at = "called"

\* matches = parse_match_logs(html, num_matches)
ParseMatchLogs ==
    /\ parser_at = "called"
    /\ parser = "parse_match_logs"
    /\ records' = parse_match_logs(document, limit)
    /\ parser_at' = "returned"
    /\ UNCHANGED << document, parser, limit >>
    /\ UNCHANGED << client_vars, classifier_vars, scraper_vars, mock_vars,
                    caller_vars >>

\* results = parse_team_search_results(html)
ParseTeamSearchResults ==
    /\ parser_at = "called"
    /\ parser = "parse_team_search_results"
    /\ records' = parse_team_search_results(document)
    /\ parser_at' = "returned"
    /\ UNCHANGED << document, parser, limit >>
    /\ UNCHANGED << client_vars, classifier_vars, scraper_vars, mock_vars,
                    caller_vars >>

ParserNext == ParseMatchLogs \/ ParseTeamSearchResults

ParserSpec == ParserInit /\ [][ParserNext]_vars

\* ---------------------------------------------------------------- claims
\* a Match that is one of the records of TEAM_DATA
FromDataset(m) == "team" \in DOMAIN m

Blocked(resp) ==
    /\ resp.bound
    /\ resp.via = "requests"
    /\ EscalatingStatus(resp.status) \/ is_error_page(resp.body) # ""

Failures == {"blocked_status", "error_page", "wait_timeout", "exception"}

\* C1: in every get call the attempt issued with retries = 0, the first one,
\* goes through the requests session and every later attempt of the call
\* goes through the Selenium driver; this holds of every call, also of one
\* that follows a call which escalated.
C1_TransportByAttempt ==
    /\ pc \in {"loop", "attempt"} => attempts = retries
    /\ attempts = 1 => via = "requests"
    /\ attempts > 1 => via = "selenium"

\* a second call whose first attempt went through the session although the
\* call before it had escalated and left its driver behind
C1_Witness ==
    /\ calls = 2
    /\ attempts = 1
    /\ via = "requests"
    /\ driver = "live"

\* C2: a response of the session with status 403, 429 or 500, or with a body
\* classified as an error page, is not what get returns, and the attempt
\* that follows it in the same call uses the Selenium driver.
C2_BlockedNotReturned ==
    /\ pc = "returned" => ~Blocked(result.response)
    /\ (pc = "attempt" /\ attempts = 1 /\ Blocked(response))
           => ~UseRequests(retries)

\* C3 as claimed: the Selenium driver is used in a call only if the response
\* of the session in that call had a status in {403, 429, 500} or an error
\* page classification.
C3_OnlyBlockedEscalates ==
    via = "selenium" => first \in {"blocked_status", "error_page"}

\* C3, amended: the Selenium driver is used in a call only after the attempt
\* made with the session failed: by a status in {403, 429, 500}, by an error
\* page classification, or by a RequestException (a transport error, or the
\* HTTPError of raise_for_status); never after the session delivered its
\* response.
C3_OnlyFailureEscalates ==
    via = "selenium" => first \in {"blocked_status", "error_page", "exception"}

\* a call in the browser after the session raised an exception
C3_Witness ==
    /\ via = "selenium"
    /\ first = "exception"
    /\ ~response.bound

\* C4: get returns a response only if the response has no error
\* classification and a successful status, or in the soft success case (a
\* server_error page at the final attempt); a call that uses up its attempts
\* in any other way raises.
C4_ReturnsOnlySuccess ==
    pc = "returned" =>
        \/ /\ is_error_page(result.response.body) = ""
           /\ ~raise_for_status(result.response.status)
           /\ ~EscalatingStatus(result.response.status)
        \/ outcome = "soft_success"

\* C5: when the page of the browser at the final attempt is classified
\* server_error, get returns a response and does not raise, whatever the
\* earlier attempts of the call did.
C5_SoftSuccessReturns ==
    (outcome = "soft_success" /\ pc \in {"returned", "raised"})
        => (pc = "returned" /\ result.kind = "response")

\* C6: an exception the handler names (RequestException, WebDriverException,
\* TimeoutException) raised by an attempt with retries < max_retries is
\* caught and the loop goes on to another attempt; raised by the attempt
\* with retries = max_retries it leaves get.
C6_ExceptionRetriedThenRaised ==
    [][(pc = "attempt" /\ outcome' \in {"exception", "wait_timeout"}) =>
         IF retries < max_retries
         THEN /\ pc' = "loop"
              /\ LoopCondition(retries', max_retries)
              /\ result'.kind = "none"
         ELSE /\ retries = max_retries
              /\ pc' = "raised"
              /\ result'.kind = "exception"
              /\ result'.exc \in {"RequestException", "HTTPError",
                                  "WebDriverException", "TimeoutException"}
      ]_vars

\* a call whose every attempt timed out or raised, ended by the exception
\* of the last one
C6_Witness ==
    /\ pc = "raised"
    /\ outcome = "wait_timeout"
    /\ first = "exception"
    /\ max_retries >= 2
    /\ attempts = max_retries + 1

\* C7: whatever the attempts of a call answer, the call ends by returning or
\* raising, it issues at most max_retries + 1 attempts, and retries goes up
\* by exactly one with every failed attempt (and with no other attempt).
C7_Terminates ==
    /\ [](attempts <= max_retries + 1)
    /\ [][pc = "attempt" =>
            retries' = IF outcome' \in Failures THEN retries + 1 ELSE retries
         ]_vars
    /\ (pc = "loop") ~> (pc \in {"returned", "raised"})

\* a call that used every attempt it is allowed
C7_Witness ==
    /\ pc = "raised"
    /\ max_retries = 2
    /\ attempts = 3
    /\ retries = 3

\* C8: _respect_rate_limit runs before every attempt, retries included, and
\* once a response has been recorded no attempt is issued before
\* rate_limit_delay * jitter_factor has passed since last_request_time, with
\* jitter_factor in [0.5, 1.5]: at least half of rate_limit_delay.
C8_RateLimitBeforeAttempt ==
    pc = "attempt" =>
        /\ waits = attempts + 1
        /\ jitter \in JitterHalves
        /\ last_request_time > 0 =>
               /\ now - last_request_time >= rate_limit_delay * jitter
               /\ now - last_request_time >= rate_limit_delay

\* a retry that the limiter held back until exactly the adjusted delay
C8_Witness ==
    /\ pc = "attempt"
    /\ retries > 0
    /\ last_request_time > 0
    /\ jitter = 3
    /\ now - last_request_time = rate_limit_delay * jitter

\* C9: last_request_time is written only by the step in which get hands a
\* delivered response to its caller; a failed attempt and a call that ends
\* by raising leave it as it was.
C9_StampOnlyOnDelivery ==
    [][last_request_time' # last_request_time =>
         /\ pc = "attempt"
         /\ pc' = "returned"
         /\ outcome' = "delivered"
         /\ result'.kind = "response"
         /\ last_request_time' >= now
      ]_vars

\* a call that failed in all its attempts and raised, on a client that had
\* recorded a response before
C9_Witness ==
    /\ calls = 2
    /\ pc = "raised"
    /\ outcome \in Failures
    /\ attempts > 1
    /\ last_request_time > 0
    /\ now > last_request_time + Ticks(4)

\* C10: a retry that follows a timeout of the browser wait or an error page
\* seen by the browser starts only after a sleep of 2 ** retries plus
\* between 2 and 5 seconds.
C10_BrowserRetryBacksOff ==
    (/\ pc = "loop"
     /\ LoopCondition(retries, max_retries)
     /\ via = "selenium"
     /\ outcome \in {"wait_timeout", "error_page"})
        => /\ backoff.kind = "error_page"
           /\ backoff.rand \in 2..5
           /\ backoff.seconds = Pow2(retries) + backoff.rand

\* the word "error" occurs in a text that holds it on its own or as part of
\* the signature "500 error"
HasErrorPhrase(html_content) ==
    "error" \in html_content \/ "500 error" \in html_content

\* C11: _is_error_page answers every text with exactly one of the five
\* labels, and a text that holds a rate-limit phrase together with an error
\* phrase is labelled rate-limited.
C11_RateLimitWins ==
    label # "unclassified" =>
        /\ label \in {"", "server_error", "forbidden", "not_found", "rate_limit"}
        /\ ("Rate Limit Exceeded" \in text /\ HasErrorPhrase(text))
               => label = "rate_limit"

\* C12: no driver exists before the first attempt that uses the browser; at
\* most one driver instance is live on a client; an instance is created only
\* by a browser attempt that finds self.driver unset, and a browser attempt
\* or a get call that finds it set uses it and creates none.
C12_OneLazyDriver ==
    /\ [](live_drivers <= 1)
    /\ []((driver = "None") <=> (live_drivers = 0))
    /\ [][live_drivers' # live_drivers =>
            /\ pc = "attempt"
            /\ ~UseRequests(retries)
            /\ driver = "None"
            /\ driver' = "live"
            /\ live_drivers' = live_drivers + 1
         ]_vars
    /\ [][driver = "live" => (driver' = "live" /\ live_drivers' = live_drivers)]_vars

\* the third attempt of a second call, made in the browser with the one
\* driver there is
C12_Witness ==
    /\ calls = 2
    /\ attempts = 3
    /\ via = "selenium"
    /\ outcome = "delivered"
    /\ driver = "live"
    /\ live_drivers = 1

\* ------------------------------------------------- claims on the scraper
\* fetch_team_data has resolved the team, or failed to, and has done
\* nothing else yet
AfterResolution ==
    /\ ~force_mock
    /\ at = "match_logs" \/ (at = "fetched" /\ ~team.found)

\* the records of KNOWN_TEAMS whose key is the query, holds it or is held by it
Matching(query) ==
    {i \in 1..Len(KNOWN_TEAMS) :
        \/ KNOWN_TEAMS[i].key = query
        \/ StrIn(query, KNOWN_TEAMS[i].key)
        \/ StrIn(KNOWN_TEAMS[i].key, query)}

\* the Team made of record i of KNOWN_TEAMS
KnownTeam(i) == Team(KNOWN_TEAMS[i].name, KNOWN_TEAMS[i].id)

\* the get calls made to search for a team
Searches == {i \in 1..Len(requested) : requested[i].purpose = "search"}

\* C13: whichever way a run ends (success, team not found, no matches,
\* exception, KeyboardInterrupt), no driver created by it is live once main
\* has returned.
C13_DriverReleased ==
    at = "exited" => live_drivers = 0

\* C14: the name given is looked up in lower case; when it is a substring of
\* exactly one key of KNOWN_TEAMS the team is that key's record; when it
\* matches several keys (is one, holds one or is held by one) the team is the
\* first of them in declaration order; either way no request is made; when
\* it matches no key the table does not resolve it and a search is issued.
C14_KnownTableByName ==
    (AfterResolution /\ ~is_url) =>
        LET query == lower(team_identifier)
            holding == {i \in 1..Len(KNOWN_TEAMS) :
                           StrIn(query, KNOWN_TEAMS[i].key)}
        IN  /\ Cardinality(holding) = 1 =>
                   \A i \in holding : team = KnownTeam(i) /\ requested = << >>
            /\ Matching(query) # {} =>
                   /\ team = KnownTeam(Least(Matching(query)))
                   /\ requested = << >>
            /\ Matching(query) = {} => Searches = {1}

\* "man" is held by two keys and is resolved to the first of them
C14_Witness ==
    /\ AfterResolution
    /\ team_identifier = "man"
    /\ Cardinality(Matching("man")) = 2
    /\ team = Team("Manchester City", "b8fd03ef")

\* C15: the name "man city" is resolved by the table to the record of
\* "manchester city", and no search is issued for it.
C15_ManCityFromTable ==
    (AfterResolution /\ ~is_url /\ team_identifier = "man city") =>
        /\ team = Team("Manchester City", "b8fd03ef")
        /\ Searches = {}

\* C16: for a URL whose /squads/<id>/ segment is the id of a record of
\* KNOWN_TEAMS the team has that record's name and id, and no request is
\* made to resolve it.
C16_KnownIdFromUrl ==
    (AfterResolution /\ is_url) =>
        \A i \in 1..Len(KNOWN_TEAMS) :
            KNOWN_TEAMS[i].id = squads_id(team_identifier) =>
                team = KnownTeam(i) /\ requested = << >>

\* the id of Arsenal under a path of a season
C16_Witness ==
    /\ AfterResolution
    /\ is_url
    /\ squads_id(team_identifier) = "18bb7c10"
    /\ team_identifier # "https://fbref.com/en/squads/18bb7c10/Arsenal-Stats"
    /\ team = Team("Arsenal", "18bb7c10")
    /\ requested = << >>

\* a URL with a /squads/<id>/ segment whose id no record of KNOWN_TEAMS has
UnknownIdUrl ==
    /\ is_url
    /\ squads_id(team_identifier) # ""
    /\ \A i \in 1..Len(KNOWN_TEAMS) :
          KNOWN_TEAMS[i].id # squads_id(team_identifier)

\* C17 as claimed: for a URL with an id that is not in KNOWN_TEAMS the
\* resolution ends with no team, and no search is issued.
C17_UnknownIdNotFound ==
    (AfterResolution /\ UnknownIdUrl) => (~team.found /\ Searches = {})

\* C17, amended: for a URL with an id that is not in KNOWN_TEAMS no search
\* is issued; the page at the URL is requested, once; the team carries the id
\* of the URL and the name of the page, or a name made of the last segment
\* of the URL when the request or the parser raised; there is no team only
\* when the page was read and shows no name.
C17_UnknownIdFetchesPage ==
    (AfterResolution /\ UnknownIdUrl) =>
        /\ Searches = {}
        /\ Len(requested) = 1
        /\ requested[1].purpose = "team_url"
        /\ requested[1].url = team_identifier
        /\ IF requested[1].raised
           THEN /\ team.found
                /\ team.fbref_id = squads_id(team_identifier)
                /\ StrIn(replace(team.name, " ", "-"), team_identifier)
           ELSE IF strip(requested[1].text.name) = ""
           THEN ~team.found
           ELSE team = Team(strip(requested[1].text.name),
                            squads_id(team_identifier))

\* a team made of the URL alone, after the request for its page raised
C17_Witness ==
    /\ AfterResolution
    /\ UnknownIdUrl
    /\ requested[1].raised
    /\ team = Team("Paris Saint Germain", "e2d8892c")

\* what parse_team_search_results made of the answer to the search
SearchResults ==
    IF requested[1].raised THEN << >>
    ELSE parse_team_search_results(requested[1].text)

\* C18: a search is requested only for a name (not for a URL) that misses
\* the table; the team is then the first result parsed from the answer, and
\* there is no team when no result was parsed; a name that hits the table
\* is resolved with no request.
C18_SearchAfterMiss ==
    AfterResolution =>
        /\ Searches # {} => (~is_url /\ Matching(lower(team_identifier)) = {})
        /\ (~is_url /\ Matching(lower(team_identifier)) # {}) => requested = << >>
        /\ Searches # {} =>
              /\ Searches = {1}
              /\ IF SearchResults = << >> THEN ~team.found
                 ELSE team = Team(SearchResults[1].name, SearchResults[1].id)

\* a search answered with two clubs, of which the first is taken
C18_Witness ==
    /\ AfterResolution
    /\ Searches = {1}
    /\ Len(SearchResults) = 2
    /\ SearchResults[1].id # SearchResults[2].id
    /\ team.fbref_id = SearchResults[1].id

\* C19: when no team is resolved, fetch_team_data returns None, get_mock_team
\* is not called, whatever use_mock_data is and whatever TEAM_DATA holds for
\* the identifier, and the resolution is not tried again.
C19_NotFoundNoMock ==
    (/\ ~force_mock
     /\ ~team.found
     /\ at \in {"fetched", "finally", "exited"}
     /\ exit_code # 130)
        => /\ ~fetched.found
           /\ mock_lookups = 0
           /\ Len(requested) <= 1
           /\ exit_code \in {-1, 1}

\* a run with use_mock_data set that found no team for an identifier which
\* get_mock_team would have answered with a team
C19_Witness ==
    /\ at = "exited"
    /\ ~force_mock
    /\ use_mock_data
    /\ ~team.found
    /\ exit_code = 1
    /\ get_mock_team(team_identifier, num_matches).found

\* C20: with use_mock_data unset, the matches of the Team that
\* fetch_team_data returns are the records parse_match_logs made of the
\* match-log page that was fetched, none when none was; no record of
\* TEAM_DATA is among them.
C20_NoSyntheticWhenDisabled ==
    (/\ ~use_mock_data
     /\ at \in {"fetched", "write", "finally", "exited"}
     /\ fetched.found)
        => /\ fetched.matches = parsed
           /\ \A i \in 1..Len(fetched.matches) : ~FromDataset(fetched.matches[i])
           /\ mock_lookups = 0
           /\ fetched.name = team.name
           /\ fetched.fbref_id = team.fbref_id

\* a team of TEAM_DATA returned with no matches, the request for its match
\* logs having raised
C20_Witness ==
    /\ ~use_mock_data
    /\ at = "fetched"
    /\ fetched.found
    /\ fetched.matches = << >>
    /\ fetched.fbref_id = "b8fd03ef"
    /\ requested # << >>
    /\ requested[Len(requested)].raised

\* fetch_team_data has returned to main
Fetched ==
    /\ ~force_mock
    /\ at \in {"fetched", "write", "finally", "exited"}
    /\ exit_code # 130 \/ fetched.found

\* C21: the Team that fetch_team_data returns after it turned to the
\* synthetic data has the name and the id of the team that was resolved,
\* and every synthetic record among its matches is a record of that team.
C21_MockOfSameTeam ==
    (Fetched /\ team.found /\ fetched.found) =>
        /\ fetched.name = team.name
        /\ fetched.fbref_id = team.fbref_id
        /\ \A i \in 1..Len(fetched.matches) :
              FromDataset(fetched.matches[i]) =>
                  fetched.matches[i].team = team.fbref_id

MatchLogsParsed == parser = "parse_match_logs" /\ parser_at = "returned"

SearchParsed == parser = "parse_team_search_results" /\ parser_at = "returned"

\* the rows of the first table of the document that has the class
\* stats_table
FirstStatsRows ==
    LET stats == {i \in 1..Len(document) : "stats_table" \in document[i].class}
    IN  IF stats = {} THEN << >> ELSE document[Least(stats)].rows

\* the place of i among the members of S
Rank(S, i) == Cardinality({j \in S : j <= i})

\* the rows of that table the loop comes to: the first `limit` of those
\* that are no spacers
RowsRead ==
    LET shown == {i \in 1..Len(FirstStatsRows) :
                    "spacer" \notin FirstStatsRows[i].class}
    IN  {i \in shown : Rank(shown, i) <= limit}

\* the date texts of the documents that name a day, and the day
MatchDays ==
    "2023-05-01" :> [year |-> 2023, month |-> 5, day |-> 1] @@
    "2023-04-25" :> [year |-> 2023, month |-> 4, day |-> 25]

Dated(row) ==
    /\ "date" \in DOMAIN row.cells
    /\ row.cells.date \in DOMAIN MatchDays

\* C24: parse_match_logs returns at most `limit` records, and they are the
\* records of rows of the first stats table that are no spacers, in the
\* order of the rows; of the two-row Arsenal/Chelsea document with limit 2
\* it returns both, Arsenal first.
C24_FirstTableInOrder ==
    MatchLogsParsed =>
        /\ Len(records) <= limit
        /\ \E f \in [1..Len(records) -> 1..Len(FirstStatsRows)] :
              /\ \A j, k \in 1..Len(records) : j < k => f[j] < f[k]
              /\ \A k \in 1..Len(records) :
                    /\ "spacer" \notin FirstStatsRows[f[k]].class
                    /\ parse_match_row(FirstStatsRows[f[k]]).returned = "Match"
                    /\ parse_match_row(FirstStatsRows[f[k]]).match = records[k]
        /\ (/\ document = << Table({"stats_table"},
                                    << ArsenalRow, ChelseaRow >>) >>
            /\ limit = 2)
           => /\ Len(records) = 2
              /\ records[1].opponent = "Arsenal"
              /\ records[2].opponent = "Chelsea"

C24_Witness ==
    /\ MatchLogsParsed
    /\ document = << Table({"stats_table"}, << SpacerRow, ChelseaRow >>),
                     Table({"stats_table"}, << ChelseaRow, ArsenalRow >>) >>
    /\ limit = 2
    /\ Len(records) = 1
    /\ records[1].opponent = "Chelsea"

\* C25: a row whose date cell is missing, blank or no date adds no record,
\* and every other row the loop comes to adds its record: the records are
\* those of the dated rows read, one each, in their order.
C25_UndatedRowsDropped ==
    MatchLogsParsed =>
        LET dated == {i \in RowsRead : Dated(FirstStatsRows[i])}
        IN  /\ Len(records) = Cardinality(dated)
            /\ \A i \in dated :
                  /\ records[Rank(dated, i)].date
                       = MatchDays[FirstStatsRows[i].cells.date]
                  /\ FirstStatsRows[i] \in {ArsenalRow, ChelseaRow}
                     => records[Rank(dated, i)].opponent
                          = FirstStatsRows[i].cells.opponent

C25_Witness ==
    /\ MatchLogsParsed
    /\ document = << Table({"stats_table"}, << PostponedRow, ArsenalRow >>) >>
    /\ limit = 2
    /\ Len(records) = 1
    /\ records[1].opponent = "Arsenal"

\* the cells read with _extract_cell_value, the field of Match each one
\* fills, and the texts of the documents that write a number
IntStats == {"goals_for", "goals_against", "shots", "shots_on_target",
             "passes_completed"}

PercentStats == {"possession", "passes_pct"}

OptionalStats == {"corners", "corners_against", "fouls", "fouled"}

FieldOf ==
    "goals_for" :> "goals_for" @@ "goals_against" :> "goals_against" @@
    "shots" :> "shots" @@ "shots_on_target" :> "shots_on_target" @@
    "passes_completed" :> "passes_completed" @@
    "possession" :> "possession_pct" @@ "passes_pct" :> "pass_accuracy_pct" @@
    "corners" :> "corners_for" @@ "corners_against" :> "corners_against" @@
    "fouls" :> "fouls_committed" @@ "fouled" :> "fouls_suffered"

WholeNumbers ==
    "1" :> 1 @@ "2" :> 2 @@ "3" :> 3 @@ "4" :> 4 @@ "5" :> 5 @@ "6" :> 6 @@
    "7" :> 7 @@ "8" :> 8 @@ "9" :> 9 @@ "10" :> 10 @@ "12" :> 12 @@
    " 12 " :> 12 @@ "15" :> 15 @@ "450" :> 450 @@ "500" :> 500 @@ "-3" :> -3

\* in thousandths
Percentages ==
    "60.2%" :> 60200 @@ "88.5%" :> 88500 @@ "55.8%" :> 55800 @@
    "85.0%" :> 85000 @@ "45.5%" :> 45500 @@ "45.5" :> 45500 @@
    "7%%" :> 7000 @@ "12" :> 12000 @@ " 12 " :> 12000 @@ "12.5" :> 12500 @@
    "-3" :> -3000

\* what the cell stat_name of the row is to give: the number its text
\* writes, or the default of the field
Expected(row, stat_name) ==
    LET there == stat_name \in DOMAIN row.cells
    IN  IF stat_name \in IntStats
        THEN IF there /\ row.cells[stat_name] \in DOMAIN WholeNumbers
             THEN WholeNumbers[row.cells[stat_name]] ELSE 0
        ELSE IF stat_name \in PercentStats
        THEN IF there /\ row.cells[stat_name] \in DOMAIN Percentages
             THEN Percentages[row.cells[stat_name]] ELSE 0
        ELSE IF there /\ row.cells[stat_name] \in DOMAIN WholeNumbers
             THEN << WholeNumbers[row.cells[stat_name]] >> ELSE None

\* the document is one stats table of one dated row
OneRow ==
    /\ Len(document) = 1
    /\ "stats_table" \in document[1].class
    /\ Len(document[1].rows) = 1
    /\ "spacer" \notin document[1].rows[1].class
    /\ Dated(document[1].rows[1])

\* C26: of a dated row, every field read with _extract_cell_value is the
\* number its own cell writes (a trailing percent sign stripped), and the
\* default of the field (0, 0.0, None) when the cell is missing, blank, no
\* number or a malformed percentage; the row gives its record all the same.
C26_FieldDefaults ==
    (MatchLogsParsed /\ OneRow) =>
        /\ Len(records) = 1
        /\ \A stat_name \in IntStats \cup PercentStats \cup OptionalStats :
              records[1][FieldOf[stat_name]]
                = Expected(document[1].rows[1], stat_name)

C26_Witness ==
    /\ MatchLogsParsed
    /\ OneRow
    /\ document[1].rows[1] = WithCell(ArsenalRow, "possession", "x%")
    /\ records[1].possession_pct = 0
    /\ records[1].pass_accuracy_pct = 88500
    /\ records[1].shots = 15

\* C27: in every Match returned, shots_off_target is shots minus
\* shots_on_target and not below 0.
C27_OffTargetFloored ==
    MatchLogsParsed =>
        \A k \in 1..Len(records) :
            /\ records[k].shots_off_target >= 0
            /\ records[k].shots_off_target
                 = IF records[k].shots >= records[k].shots_on_target
                   THEN records[k].shots - records[k].shots_on_target ELSE 0

\* C28: in every Match returned, venue is "Home" or "Away".
C28_VenueHomeOrAway ==
    MatchLogsParsed =>
        \A k \in 1..Len(records) : records[k].venue \in {"Home", "Away"}

\* the segments of a path in which "squads" comes after a slash and is
\* followed by a segment that is not empty and ends with a slash
SquadSegments(href) ==
    {k \in 2..(Len(split(href, "/")) - 2) :
        /\ split(href, "/")[k] = "squads"
        /\ split(href, "/")[k + 1] # ""}

\* C29: parse_team_search_results returns one entry for each result link
\* whose href holds /squads/<id>/, in the order of the links, with that id,
\* and none for any other link.
C29_SquadLinksOnly ==
    SearchParsed =>
        LET squads == {i \in 1..Len(document) :
                         SquadSegments(document[i].href) # {}}
        IN  /\ Len(records) = Cardinality(squads)
            /\ \A i \in squads :
                  LET entry == records[Rank(squads, i)]
                      href == document[i].href
                  IN  /\ entry.id
                           = split(href, "/")[Least(SquadSegments(href)) + 1]
                      /\ entry.url = "https://fbref.com" \o href
                      /\ entry.name = strip(document[i].text)

C29_Witness ==
    /\ SearchParsed
    /\ Len(document) = 2
    /\ document[1].href = "/en/players/4c370d81/Paris-Brunner"
    /\ document[2].href = "/en/squads/e2d8892c/Paris-Saint-Germain-Stats"
    /\ Len(records) = 1
    /\ records[1].id = "e2d8892c"

\* C30: when an attempt of a get call is about to be made, the User-Agent
\* has been drawn as many times in this call as attempts were made before
\* it: never before the first attempt, once more before each later one.
C30_RotatedBeforeRetries ==
    pc = "attempt" => rotations = attempts

C30_Witness ==
    /\ pc = "attempt"
    /\ attempts = 2
    /\ rotations = 2

\* some get call of the run ended by raising
AcquisitionFailed == \E i \in 1..Len(requested) : requested[i].raised

\* C23: what fetch_team_data returns tells the failures apart: None means
\* that the team was not found, a Team without matches means that it was
\* found and has no matches to retrieve, and neither is returned when a get
\* call gave up and raised.
C23_FailuresToldApart ==
    (Fetched /\ ~use_mock_data) =>
        /\ ~fetched.found => ~AcquisitionFailed
        /\ (fetched.found /\ fetched.matches = << >>) => ~AcquisitionFailed

\* C33: in the soft success case (a server_error page seen by the browser
\* at the final attempt) the response handed to the caller is the one built
\* from the page of the browser at that attempt: its body is classified
\* server_error, and it is no response kept from an earlier attempt.
C33_SoftSuccessFinalPage ==
    (pc = "returned" /\ outcome = "soft_success") =>
        /\ result.response.via = "selenium"
        /\ is_error_page(result.response.body) = "server_error"


\* the requests that threads a and b issued last passed the limiter against
\* the same recorded timestamp and were sent less than
\* 0.5 * rate_limit_delay apart (a thread at "attempt" has run the limiter
\* for a request it has not sent yet)
Close(a, b) ==
    /\ a # b
    /\ callers[a].seen > 0
    /\ callers[a].issued >= 0
    /\ callers[b].issued >= 0
    /\ callers[a].pc # "attempt"
    /\ callers[b].pc # "attempt"
    /\ callers[a].seen = callers[b].seen
    /\ callers[a].issued - callers[b].issued < rate_limit_delay
    /\ callers[b].issued - callers[a].issued < rate_limit_delay

\* the call of thread a was over before thread b called get
Before(a, b) ==
    /\ ~overlapped
    /\ callers[a].call > 0
    /\ callers[a].call < callers[b].call

\* C31 as stated: two get calls on one client issue requests that passed
\* the limiter against the same timestamp less than 0.5 * rate_limit_delay
\* apart only when the calls ran concurrently, never when one call was over
\* before the other began.
C31_CloseOnlyWhenConcurrent ==
    \A a, b \in Callers : Close(a, b) => overlapped

\* C31, amended: two get calls that run concurrently on one client can both
\* pass the limiter against the same timestamp and send their requests less
\* than 0.5 * rate_limit_delay apart, both being delivered.  When one call
\* is over before the other begins, this happens only if the earlier call
\* wrote no timestamp (it raised, or it ended in the soft success); after a
\* call that delivered a response, every request of the later call is sent
\* at least 0.5 * rate_limit_delay after the last request of the earlier.
C31_SerializedApartOnceStamped ==
    \A a, b \in Callers :
        Before(a, b) =>
            /\ Close(a, b) => ~callers[a].wrote
            /\ (callers[a].wrote /\ callers[b].issued >= 0) =>
                   callers[b].issued - callers[a].issued >= rate_limit_delay

\* both threads read the timestamp of an earlier delivery, slept until the
\* same moment, sent their requests together, and both were delivered
C31_Witness ==
    /\ overlapped
    /\ Close(1, 2)
    /\ callers[1].wrote
    /\ callers[2].wrote
    /\ callers[1].issued = callers[2].issued

\* a later call, begun after the earlier had delivered, held back by the
\* limiter
C31_SerializedWitness ==
    /\ Before(1, 2)
    /\ callers[1].wrote
    /\ callers[2].pc = "returned"
    /\ callers[2].issued - callers[1].issued = rate_limit_delay


\* the records of KNOWN_TEAMS that the loop of get_match_logs accepts for a
\* team: the id of the team, or a key that is its lowered name or part of it
TableRecords(tm) ==
    {i \in 1..Len(KNOWN_TEAMS) :
        \/ KNOWN_TEAMS[i].id = tm.fbref_id
        \/ KNOWN_TEAMS[i].key = lower(tm.name)
        \/ StrIn(KNOWN_TEAMS[i].key, lower(tm.name))}

\* the get calls made for the page of the team and for its match logs
PageRequests == {i \in 1..Len(requested) : requested[i].purpose = "team_page"}

LogRequests == {i \in 1..Len(requested) : requested[i].purpose = "matchlogs"}

\* the path made of the id and the name of a team
ConstructedUrl(tm) ==
    "https://fbref.com/en/squads/" \o tm.fbref_id \o "/matchlogs/all_comps/"
    \o replace(tm.name, " ", "-") \o "-Scores-and-Fixtures-All-Competitions"

\* C32: the match-log URL of a resolved team is the path of the first table
\* record the team matches, and then get_match_logs makes one get call, to
\* that path; without such a record the page of the team is requested
\* first, and the match logs are requested at the link that page shows, or
\* at the path made of the id and the name of the team when it shows none;
\* the page is requested only when no record matches.
C32_MatchlogsUrlOrder ==
    at = "logs_done" =>
        /\ TableRecords(team) # {} =>
              /\ PageRequests = {}
              /\ Cardinality(LogRequests) = 1
              /\ \A i \in LogRequests :
                    /\ i = Len(requested)
                    /\ requested[i].url = "https://fbref.com" \o
                           KNOWN_TEAMS[Least(TableRecords(team))].matchlogs_url
        /\ TableRecords(team) = {} =>
              /\ Cardinality(PageRequests) = 1
              /\ \A p \in PageRequests :
                    IF requested[p].raised THEN LogRequests = {}
                    ELSE /\ LogRequests = {p + 1}
                         /\ requested[p + 1].url =
                              IF requested[p].text.matchlogs_href # ""
                              THEN "https://fbref.com" \o
                                   requested[p].text.matchlogs_href
                              ELSE ConstructedUrl(team)
        /\ PageRequests # {} => TableRecords(team) = {}

\* a team outside the table whose page shows no Match Logs link: the match
\* logs are requested at the constructed path, after the page
C32_Witness ==
    /\ at = "logs_done"
    /\ team = Team("Paris Saint-Germain", "e2d8892c")
    /\ Len(requested) = 3
    /\ requested[1].purpose = "search"
    /\ requested[2].purpose = "team_page"
    /\ ~requested[2].raised
    /\ requested[2].text.matchlogs_href = ""
    /\ requested[3].url = "https://fbref.com/en/squads/e2d8892c/matchlogs/all_comps/Paris-Saint-Germain-Scores-and-Fixtures-All-Competitions"


\* C34: the match-log URL that get_match_logs works out for a resolved team
\* (the path of a table record, or the path made of the id and the name;
\* a link shown by the fetched page of the team is the site's word) names
\* the squad of that team: it holds the segment /squads/<id of the team>/.
C34_MatchlogsOfSameTeam ==
    at = "logs_done" =>
        \A i \in LogRequests :
            \/ StrIn("/squads/" \o team.fbref_id \o "/", requested[i].url)
            \/ /\ i - 1 \in PageRequests
               /\ ~requested[i - 1].raised
               /\ requested[i - 1].text.matchlogs_href # ""


\* the get calls of the run that raised (a parser that raises on the answer
\* of a call ends in the same handler as the call)
RaisedRequests == {i \in 1..Len(requested) : requested[i].raised}

\* every record of the list comes from the synthetic dataset
Synthetic(records_list) ==
    \A k \in 1..Len(records_list) : FromDataset(records_list[k])

\* C35 as stated: when a get call or a parser raised during the search, the
\* fetch of the team page or the fetch of the match logs, fetch_team_data
\* returns None, a Team without matches, or a Team with synthetic records.
C35_RaisedToNoneEmptyOrSynthetic ==
    (Fetched /\ RaisedRequests # {}) =>
        \/ ~fetched.found
        \/ fetched.matches = << >>
        \/ Synthetic(fetched.matches)

\* C35, amended: fetch_team_data returns to its caller whatever raised in a
\* get call or a parser.  A failed search gives None; a failed fetch of the
\* page at a --url gives a Team with the id of the URL, named after its last
\* segment, and the run goes on with it; a failed fetch of the team page or of
\* the match logs in get_match_logs gives no parsed rows: the matches
\* returned are none or synthetic.
C35_RaisedAbsorbed ==
    Fetched =>
        \A i \in RaisedRequests :
            IF requested[i].purpose = "search"
            THEN ~team.found /\ ~fetched.found
            ELSE IF requested[i].purpose = "team_url"
            THEN /\ team.found
                 /\ team.fbref_id = squads_id(team_identifier)
                 /\ team.name = replace(replace(LastSegment(team_identifier),
                                                "-Stats", ""), "-", " ")
            ELSE /\ parsed = << >>
                 /\ fetched.found
                 /\ fetched.matches = << >> \/ Synthetic(fetched.matches)

\* the page at the URL could not be fetched, the team was named after the
\* URL, and its match logs were then read from the site
C35_Witness ==
    /\ Fetched
    /\ RaisedRequests = {1}
    /\ requested[1].purpose = "team_url"
    /\ Len(requested) = 3
    /\ fetched.found
    /\ fetched.name = "Paris Saint Germain"
    /\ fetched.matches # << >>
    /\ ~Synthetic(fetched.matches)


\* the entries of the synthetic dataset whose key is the lowered name, is
\* part of it or holds it
MockEntries(name) ==
    {i \in 1..Len(dataset) :
        \/ dataset[i].key = lower(name)
        \/ StrIn(dataset[i].key, lower(name))
        \/ StrIn(lower(name), dataset[i].key)}

\* C36: with use_mock_data set and a positive limit, a team that was
\* resolved and whose name matches an entry of the synthetic dataset with
\* at least one record comes back from fetch_team_data with at least one
\* match, whether the get calls raised, answered pages without rows, or
\* answered pages with rows.
C36_FallbackGivesMatches ==
    (/\ Fetched
     /\ use_mock_data
     /\ num_matches > 0
     /\ team.found
     /\ \E i \in MockEntries(team.name) : dataset[i].matches > 0)
        => (fetched.found /\ fetched.matches # << >>)

\* the match-log page was fetched and held no row: the records returned are
\* synthetic
C36_Witness ==
    /\ Fetched
    /\ use_mock_data
    /\ team = Team("Manchester United", "19538871")
    /\ Len(requested) = 1
    /\ ~requested[1].raised
    /\ parsed = << >>
    /\ fetched.matches # << >>
    /\ Synthetic(fetched.matches)


\* C37: the limit is applied to the rows before any is dropped: the records
\* are those of the convertible rows among the first `limit` rows that are
\* no spacers, one each and in their order, and a row dropped among them
\* leaves its place empty even when a convertible row follows the limit.
C37_LimitBeforeDrop ==
    MatchLogsParsed =>
        LET shown == {i \in 1..Len(FirstStatsRows) :
                        "spacer" \notin FirstStatsRows[i].class}
            dropped == {i \in RowsRead : ~Dated(FirstStatsRows[i])}
            kept == RowsRead \ dropped
            beyond == {i \in shown \ RowsRead : Dated(FirstStatsRows[i])}
        IN  /\ Len(records) = Cardinality(RowsRead) - Cardinality(dropped)
            /\ \A i \in kept :
                  records[Rank(kept, i)] = parse_match_row(FirstStatsRows[i]).match
            /\ (dropped # {} /\ beyond # {}) => Len(records) < limit

\* limit 1 on a table whose first row has no date and whose second row is
\* a match: nothing is returned
C37_Witness ==
    /\ MatchLogsParsed
    /\ document = << Table({"stats_table"}, << PostponedRow, ArsenalRow >>) >>
    /\ limit = 1
    /\ records = << >>

\* C38: main returns 0 only when it holds a team with at least one match,
\* the rows write_to_csv writes being the matches of that team, one row
\* each; when the run was not cancelled and main holds no team or a team
\* without matches it returns 1, with --force-mock as without; the only
\* other code is 130.
C38_ExitCodes ==
    at \in {"finally", "exited"} =>
        /\ exit_code \in {0, 1, 130}
        /\ exit_code = 0 => (fetched.found /\ fetched.matches # << >>)
        /\ (exit_code # 130 /\ (~fetched.found \/ fetched.matches = << >>))
              => exit_code = 1

====
